---- MODULE Spec2Model ----
(***************************************************************************)
(* GoTinyDB file store (files.go): chunked files over an ordered byte-key  *)
(* engine, PutFile / ReadFile / DeleteFile and the random-access           *)
(* reader/writer handles.                                                  *)
(***************************************************************************)
EXTENDS Integers, Sequences, FiniteSets, TLC

\* ------------------------------------------------------------------ bounds
\* chunk size the database runs with (the tests lower FileChuckSize too)
ChunkBound == 2
\* longest payload given to PutFile / longest file
MaxLen == 3
\* largest chunk number whose key is built in SpecKeys
MaxChunkN == 515
\* longest stream written through a handle in SpecStream
MaxStream == 5
\* longest payload of one Write / WriteAt
MaxWrite == 4
\* largest buffer given to Read / ReadAt
MaxBuf == 3
\* longest file put in the handle specs
MaxFile == 3
\* largest size a handle's metadata may reach
MaxSize == 5
MaxPiece == 2
MaxShared == 3
MaxList == 2

Bytes == {1, 2}
FileIDs == {"a", "b"}
MainFile == "a"
OtherFile == "b"
OtherPayload == <<2, 1, 1>>

\* all byte strings of length at most n
Payloads(n) == UNION {[1..k -> Bytes] : k \in 0..n}

VARIABLES
    store,          \* the engine: key (byte string) -> stored value
    FileChuckSize,  \* package variable FileChuckSize
    handles,        \* reader / writer handles (readWriter objects)
    last,           \* the last call, its arguments and what it returned
    probe           \* SpecKeys: chunk numbers and the keys built for them

vars == <<store, FileChuckSize, handles, last, probe>>

\* ------------------------------------------------------------ key space
prefixFiles == 2

\* blake2b.Sum256(id): distinct ids give distinct fingerprints; one byte
\* stands for the 32 of the digest
derivedID(id) == IF id = "a" THEN 7 ELSE 9

Repeat255(n) == [i \in 1..n |-> 255]

\* a faulty variant: the chunk part is the low byte only
buildFilePrefix_LowByteOnly(id, chunkN) ==
    LET prefixWithID == <<prefixFiles, derivedID(id)>>
    IN  IF chunkN < 0 THEN prefixWithID
        ELSE IF chunkN = 0 THEN prefixWithID \o <<0>>
        ELSE prefixWithID \o <<chunkN % 256>>

buildFilePrefix(id, chunkN) ==
    LET prefixWithID == <<prefixFiles, derivedID(id)>>
    IN  IF chunkN < 0 THEN prefixWithID
        ELSE IF chunkN = 0 THEN prefixWithID \o <<0>>
        ELSE prefixWithID \o Repeat255(chunkN \div 256) \o <<chunkN % 256>>

\* byte-lexicographic order of the engine's keys
LexLess(a, b) ==
    \E i \in 1..(Len(a) + 1) :
        /\ \A j \in 1..(i - 1) : j <= Len(b) /\ a[j] = b[j]
        /\ \/ i <= Len(a) /\ i <= Len(b) /\ a[i] < b[i]
           \/ i = Len(a) + 1 /\ Len(b) >= i

ValidForPrefix(key, prefix) ==
    Len(key) >= Len(prefix) /\ SubSeq(key, 1, Len(prefix)) = prefix

\* the keys of S in ascending order
RECURSIVE SortKeys(_)
SortKeys(S) ==
    IF S = {} THEN << >>
    ELSE LET m == CHOOSE k \in S : \A o \in S : o = k \/ LexLess(k, o)
         IN  <<m>> \o SortKeys(S \ {m})

RECURSIVE TakeValid(_, _)
TakeValid(keys, prefix) ==
    IF keys = << >> \/ ~ValidForPrefix(Head(keys), prefix) THEN << >>
    ELSE <<Head(keys)>> \o TakeValid(Tail(keys), prefix)

\* for it.Seek(start); it.ValidForPrefix(prefix); it.Next(): the keys visited
IterFrom(db, start, prefix) ==
    TakeValid(SortKeys({k \in DOMAIN db : ~LexLess(k, start)}), prefix)

\* ------------------------------------------------------------ the engine
EmptyDB == [k \in {} |-> 0]

\* one committed write request holding one set / one delete operation
Set(db, k, v) == [x \in (DOMAIN db) \cup {k} |-> IF x = k THEN v ELSE db[x]]
Del(db, k) == [x \in (DOMAIN db) \ {k} |-> db[x]]

RECURSIVE DelAll(_, _)
DelAll(db, keys) ==
    IF keys = << >> THEN db ELSE DelAll(Del(db, Head(keys)), Tail(keys))

\* ------------------------------------------------------------ metadata
buildMeta(id) ==
    [ID |-> id, Size |-> 0, ChuckSize |-> FileChuckSize, inWrite |-> FALSE,
     RelatedDocumentCollection |-> "", RelatedDocumentID |-> ""]

\* json.Marshal(meta): only the exported fields are written
MarshalMeta(meta) ==
    [ID |-> meta.ID, Size |-> meta.Size, ChuckSize |-> meta.ChuckSize,
     RelatedDocumentCollection |-> meta.RelatedDocumentCollection,
     RelatedDocumentID |-> meta.RelatedDocumentID]

\* json.Unmarshal into a new FileMeta: inWrite keeps its zero value
UnmarshalMeta(v) ==
    [ID |-> v.ID, Size |-> v.Size, ChuckSize |-> v.ChuckSize, inWrite |-> FALSE,
     RelatedDocumentCollection |-> v.RelatedDocumentCollection,
     RelatedDocumentID |-> v.RelatedDocumentID]

putFileMeta(db, meta) == Set(db, buildFilePrefix(meta.ID, 0), MarshalMeta(meta))

getFileMetaWithTxn(txn, id) ==
    IF buildFilePrefix(id, 0) \in DOMAIN txn
    THEN UnmarshalMeta(txn[buildFilePrefix(id, 0)])
    ELSE buildMeta(id)

\* the write of one chunk: refused when the content is longer than a chunk
writeFileChunk(db, id, chunk, content) ==
    IF FileChuckSize < Len(content)
    THEN [err |-> "tooLong", db |-> db]
    ELSE [err |-> "nil", db |-> Set(db, buildFilePrefix(id, chunk), content)]

\* -------------------------------------------------------- related lists
prefixFilesRelated == 3

\* col.prefix of the collection and the bytes of the document id: one byte
\* stands for each
colPrefix(colName) == IF colName = "c" THEN 5 ELSE 6
docBytes(documentID) == IF documentID = "d1" THEN 1 ELSE 2

buildRelatedID(colName, documentID) ==
    <<prefixFilesRelated, colPrefix(colName), docBytes(documentID)>>

getRelatedFileIDsInternal(txn, colName, documentID) ==
    IF buildRelatedID(colName, documentID) \in DOMAIN txn
    THEN txn[buildRelatedID(colName, documentID)]
    ELSE << >>

\* the write request of addRelatedFileIDs: the list that was read, with the
\* id appended
addRelatedWrite(db, colName, documentID, fileIDs, id) ==
    Set(db, buildRelatedID(colName, documentID), fileIDs \o <<id>>)

\* addRelatedFileIDs by one caller with no other caller in between
addRelatedFileIDs(db, colName, documentID, id) ==
    addRelatedWrite(db, colName, documentID,
                    getRelatedFileIDsInternal(db, colName, documentID), id)

\* fileIDs = append(fileIDs[:i], fileIDs[i+1:]...), i counted from 1 here
RemoveAt(fileIDs, i) == SubSeq(fileIDs, 1, i - 1) \o SubSeq(fileIDs, i + 1, Len(fileIDs))

\* the loop of deleteRelatedFileIDs, from the last index down, for one id to
\* delete
RECURSIVE removeFileID(_, _, _)
removeFileID(fileIDs, i, idToDelete) ==
    IF i < 1 THEN fileIDs
    ELSE removeFileID(IF fileIDs[i] = idToDelete THEN RemoveAt(fileIDs, i) ELSE fileIDs,
                      i - 1, idToDelete)

\* a faulty variant: the list left is stored also when it is empty
deleteRelatedFileIDs_StoreEmpty(db, colName, documentID, id) ==
    IF colName = "" THEN db
    ELSE LET read == getRelatedFileIDsInternal(db, colName, documentID)
         IN  Set(db, buildRelatedID(colName, documentID), removeFileID(read, Len(read), id))

\* deleteRelatedFileIDs; for a file with no related document (colName "")
\* there is no list to change
deleteRelatedFileIDs(db, colName, documentID, id) ==
    IF colName = "" THEN db
    ELSE LET read == getRelatedFileIDsInternal(db, colName, documentID)
             fileIDs == removeFileID(read, Len(read), id)
         IN  IF Len(fileIDs) # 0
             THEN Set(db, buildRelatedID(colName, documentID), fileIDs)
             ELSE Del(db, buildRelatedID(colName, documentID))

\* ------------------------------------------------- DeleteFile / ReadFile
\* a faulty variant: the scan starts at chunk 1 and leaves the metadata record
DeleteFileDB_KeepMeta(db, id) ==
    DelAll(db, IterFrom(db, buildFilePrefix(id, 1), buildFilePrefix(id, -1)))

\* a faulty variant: nothing is deleted
DeleteFileDB_Nothing(db, id) == db

DeleteFileDB(db, id) ==
    DelAll(db, IterFrom(db, buildFilePrefix(id, -1), buildFilePrefix(id, -1)))

RECURSIVE ConcatValues(_, _)
ConcatValues(db, keys) ==
    IF keys = << >> THEN << >>
    ELSE db[Head(keys)] \o ConcatValues(db, Tail(keys))

\* DeleteFile: the keys of the file, then its entry in the related list of
\* the document its metadata named
DeleteFileFull(db, id) ==
    LET meta == getFileMetaWithTxn(db, id)
    IN  deleteRelatedFileIDs(DeleteFileDB(db, id), meta.RelatedDocumentCollection,
                             meta.RelatedDocumentID, id)

\* a faulty variant: the iteration starts at the prefix of the file, on the
\* metadata record, whose encoding one byte stands for
ReadFileOut_FromPrefix(db, id) ==
    (IF buildFilePrefix(id, 0) \in DOMAIN db THEN <<0>> ELSE << >>)
        \o ConcatValues(db, IterFrom(db, buildFilePrefix(id, 1), buildFilePrefix(id, -1)))

\* what ReadFile writes to its writer
ReadFileOut(db, id) ==
    ConcatValues(db, IterFrom(db, buildFilePrefix(id, 1), buildFilePrefix(id, -1)))

\* the keys stored under the prefix of id
FileKeys(db, id) == {k \in DOMAIN db : ValidForPrefix(k, buildFilePrefix(id, -1))}

\* --------------------------------------------------------------- PutFile
RECURSIVE SumSeq(_)
SumSeq(s) == IF s = << >> THEN 0 ELSE Head(s) + SumSeq(Tail(s))

\* what the reader may return call after call: between 1 byte and a full
\* buffer each time, n bytes in all
ReadPlans(n) ==
    {s \in UNION {[1..k -> 1..FileChuckSize] : k \in 0..n} : SumSeq(s) = n}

\* the reader that fills the buffer whenever it can (bytes.Buffer)
FullReads(n) ==
    [i \in 1..((n + FileChuckSize - 1) \div FileChuckSize) |->
        IF i * FileChuckSize <= n THEN FileChuckSize ELSE n - (i - 1) * FileChuckSize]

Drop(s, n) == SubSeq(s, n + 1, Len(s))
Take(s, n) == SubSeq(s, 1, n)

\* the read loop of PutFileRelated: one chunk per Read of the reader
RECURSIVE PutChunks(_, _, _, _, _)
PutChunks(db, id, P, reads, nChunk) ==
    IF reads = << >> THEN db
    ELSE PutChunks(writeFileChunk(db, id, nChunk, Take(P, Head(reads))).db,
                   id, Drop(P, Head(reads)), Tail(reads), nChunk + 1)

\* a faulty variant: the chunk counter starts at 0
PutFileDB_ChunksFromZero(db, id, P, reads) ==
    LET meta0 == [buildMeta(id) EXCEPT !.inWrite = TRUE]
        db0 == DeleteFileDB(db, id)
        db1 == putFileMeta(db0, meta0)
        db2 == PutChunks(db1, id, P, reads, 0)
        meta1 == [meta0 EXCEPT !.Size = SumSeq(reads), !.inWrite = FALSE]
    IN  putFileMeta(db2, meta1)

PutFileRelatedDB(db, id, P, reads, colName, documentID) ==
    LET db0 == DeleteFileFull(db, id)
        meta0 == IF colName # ""
                 THEN [buildMeta(id) EXCEPT !.inWrite = TRUE,
                                            !.RelatedDocumentCollection = colName,
                                            !.RelatedDocumentID = documentID]
                 ELSE [buildMeta(id) EXCEPT !.inWrite = TRUE]
        dbl == IF colName # "" THEN addRelatedFileIDs(db0, colName, documentID, id) ELSE db0
        db1 == putFileMeta(dbl, meta0)
        db2 == PutChunks(db1, id, P, reads, 1)
        meta1 == [meta0 EXCEPT !.Size = SumSeq(reads), !.inWrite = FALSE]
    IN  putFileMeta(db2, meta1)

PutFileDB(db, id, P, reads) == PutFileRelatedDB(db, id, P, reads, "", "")

Alive == last.err # "panic"

PutFileOp(id, P, reads) ==
    /\ Alive
    /\ store' = PutFileDB(store, id, P, reads)
    /\ last' = [op |-> "PutFile", id |-> id, P |-> P, reads |-> reads,
                n |-> SumSeq(reads), err |-> "nil",
                shrunk |-> Cardinality(FileKeys(store, id) \ {buildFilePrefix(id, 0)}) > Len(reads)]
    /\ UNCHANGED <<FileChuckSize, handles>>

ReadFileOp(id) ==
    /\ Alive
    /\ last' = [op |-> "ReadFile", id |-> id, out |-> ReadFileOut(store, id), err |-> "nil",
                prev |-> IF last.op = "PutFile"
                         THEN [op |-> last.op, id |-> last.id, P |-> last.P, n |-> last.n, err |-> last.err]
                         ELSE [op |-> "other"]]
    /\ UNCHANGED <<store, FileChuckSize, handles>>

DeleteFileOp(id) ==
    /\ Alive
    /\ store' = DeleteFileFull(store, id)
    /\ last' = [op |-> "DeleteFile", id |-> id, err |-> "nil",
                existed |-> FileKeys(store, id) # {}]
    /\ UNCHANGED <<FileChuckSize, handles>>

\* ------------------------------------------------------ readWriter
\* Go's integer division and remainder truncate toward zero
GoDiv(a, b) == IF a >= 0 THEN a \div b ELSE -((-a) \div b)
GoMod(a, b) == a - b * GoDiv(a, b)

NoHandle ==
    [state |-> "none", writer |-> FALSE, meta |-> buildMeta(MainFile),
     cache |-> << >>, hasCache |-> FALSE, cachedChunk |-> 0,
     currentPosition |-> 0, txn |-> EmptyDB]

\* a new read-only transaction sees the engine as it is now
newReadWriter(db, id, writer) ==
    [state |-> "open", writer |-> writer, meta |-> getFileMetaWithTxn(db, id),
     cache |-> << >>, hasCache |-> FALSE, cachedChunk |-> 0,
     currentPosition |-> 0, txn |-> db]

getBlock(r, offset) == GoDiv(offset, r.meta.ChuckSize) + 1
getInside(r, offset) == GoMod(offset, r.meta.ChuckSize)

getExistingBlock(r, blockN) ==
    IF buildFilePrefix(r.meta.ID, blockN) \in DOMAIN r.txn
    THEN r.txn[buildFilePrefix(r.meta.ID, blockN)]
    ELSE << >>

\* --- Read: the loop over the chunks from the block of the position on.
\* r: the handle, keys: the keys left to visit, block: the block computed
\* from the position (it is not advanced by the loop)
RECURSIVE ReadLoop(_, _, _, _, _, _, _)
ReadLoop(r, keys, buffer, first, L, inside, block) ==
    IF keys = << >>
    THEN [n |-> Len(buffer), err |-> "EOF", data |-> buffer,
          hd |-> [r EXCEPT !.currentPosition = 0]]
    ELSE LET hit == block = r.cachedChunk /\ r.hasCache /\ first
             val == IF hit THEN r.cache ELSE r.txn[Head(keys)]
             r1 == IF hit THEN r
                   ELSE [r EXCEPT !.cache = val, !.hasCache = TRUE, !.cachedChunk = block]
         IN  IF first /\ (inside < 0 \/ inside > Len(val))
             THEN [n |-> 0, err |-> "panic", data |-> << >>, hd |-> r1]
             ELSE LET toAdd == IF first THEN Drop(val, inside) ELSE val
                      buf == buffer \o toAdd
                  IN  IF Len(buf) >= L
                      THEN [n |-> L, err |-> "nil", data |-> Take(buf, L),
                            hd |-> [r1 EXCEPT !.currentPosition = @ + L]]
                      ELSE ReadLoop(r1, Tail(keys), buf, FALSE, L, inside, block)

\* a faulty variant: the chunks are read from the engine as it is now
ReadCore_Latest(r, L) ==
    LET now == [r EXCEPT !.txn = store]
        block == getBlock(now, now.currentPosition)
        inside == getInside(now, now.currentPosition)
    IN  ReadLoop(now, IterFrom(now.txn, buildFilePrefix(now.meta.ID, block),
                               buildFilePrefix(now.meta.ID, -1)),
                 << >>, TRUE, L, inside, block)

ReadCore(r, L) ==
    LET block == getBlock(r, r.currentPosition)
        inside == getInside(r, r.currentPosition)
    IN  ReadLoop(r, IterFrom(r.txn, buildFilePrefix(r.meta.ID, block),
                             buildFilePrefix(r.meta.ID, -1)),
                 << >>, TRUE, L, inside, block)

\* --- Write: the chunks written, before the deferred afterWrite
RECURSIVE WriteLoop(_, _, _, _, _)
WriteLoop(r, db, p, n, block) ==
    LET done == n + FileChuckSize > Len(p)
        newEnd == IF done THEN Len(p) ELSE n + FileChuckSize
        next0 == SubSeq(p, n + 1, newEnd)
        val == getExistingBlock(r, block)
        next == IF done /\ Len(val) >= Len(next0)
                THEN next0 \o Drop(val, Len(next0)) ELSE next0
        w == writeFileChunk(db, r.meta.ID, block, next)
    IN  IF w.err # "nil" THEN [n |-> n, err |-> w.err, db |-> db]
        ELSE IF done THEN [n |-> Len(p), err |-> "nil", db |-> w.db]
        ELSE WriteLoop(r, w.db, p, n + FileChuckSize, block + 1)

WriteChunks(r, db, p) ==
    LET block == getBlock(r, r.currentPosition)
        inside == getInside(r, r.currentPosition)
        val == getExistingBlock(r, block)
        free == FileChuckSize - inside
    IN  IF free > Len(p)
        THEN IF inside < 0
             THEN [n |-> 0, err |-> "panic", db |-> db]
             ELSE LET head == IF inside <= Len(val) THEN Take(val, inside) ELSE << >>
                      tail == IF inside + Len(p) < Len(val)
                              THEN Drop(val, inside + Len(p)) ELSE << >>
                      w == writeFileChunk(db, r.meta.ID, block, head \o p \o tail)
                  IN  [n |-> Len(p), err |-> w.err, db |-> w.db]
        ELSE IF inside < 0 \/ inside > Len(val) \/ free < 0
             THEN [n |-> 0, err |-> "panic", db |-> db]
             ELSE LET w == writeFileChunk(db, r.meta.ID, block,
                                          Take(val, inside) \o Take(p, free))
                  IN  IF w.err # "nil" THEN [n |-> 0, err |-> w.err, db |-> db]
                      ELSE WriteLoop(r, w.db, p, free, block + 1)

\* a faulty variant: only an offset beyond the size is refused
checkReadWriteAt_Beyond(r, off) == IF r.meta.Size < off THEN "offset" ELSE "nil"

checkReadWriteAt(r, off) == IF r.meta.Size <= off THEN "offset" ELSE "nil"

afterWriteSize(r, writtenLength) == r.meta.Size + writtenLength

\* a faulty variant: the position is not advanced
afterWriteHandle_NoAdvance(r, db, writtenLength) ==
    [r EXCEPT !.txn = db, !.cachedChunk = 0,
              !.meta.Size = afterWriteSize(r, writtenLength)]

\* the deferred afterWrite: a new transaction, the cache marker reset, the
\* size and the position advanced by len(p)
afterWriteHandle(r, db, writtenLength) ==
    [r EXCEPT !.txn = db, !.cachedChunk = 0,
              !.meta.Size = afterWriteSize(r, writtenLength),
              !.currentPosition = @ + writtenLength]

\* Write on handle r over engine db: what it returns, the engine and the handle
WriteCore(r, db, p) ==
    LET w == WriteChunks(r, db, p)
        r1 == afterWriteHandle(r, w.db, Len(p))
    IN  [n |-> w.n, err |-> w.err, db |-> putFileMeta(w.db, r1.meta), hd |-> r1]

\* ------------------------------------------------------ handle calls
Handles == {1, 2}
IdleHandles == [h \in Handles |-> NoHandle]

StoredSize(db, id) == getFileMetaWithTxn(db, id).Size

GetFileReaderOp(h, id) ==
    /\ Alive
    /\ handles[h].state # "open"
    /\ handles' = [handles EXCEPT ![h] = newReadWriter(store, id, FALSE)]
    /\ last' = [op |-> "GetFileReader", h |-> h, id |-> id, err |-> "nil"]
    /\ UNCHANGED <<store, FileChuckSize>>

GetFileWriterRelatedOp(h, id, colName, documentID) ==
    /\ Alive
    /\ handles[h].state # "open"
    /\ LET rw == newReadWriter(store, id, TRUE)
           others == {o \in Handles \ {h} : /\ handles[o].state = "open"
                                            /\ handles[o].writer
                                            /\ handles[o].meta.ID = id}
       IN  IF rw.meta.inWrite
           THEN /\ last' = [op |-> "GetFileWriter", h |-> h, id |-> id,
                            err |-> "ErrFileInWrite", openWriters |-> others]
                /\ UNCHANGED <<store, handles>>
           ELSE LET meta == IF colName # ""
                            THEN [rw.meta EXCEPT !.inWrite = TRUE,
                                                 !.RelatedDocumentCollection = colName,
                                                 !.RelatedDocumentID = documentID]
                            ELSE [rw.meta EXCEPT !.inWrite = TRUE]
                    dbl == IF colName # ""
                           THEN addRelatedFileIDs(store, colName, documentID, id)
                           ELSE store
                IN  /\ store' = putFileMeta(dbl, meta)
                    /\ handles' = [handles EXCEPT ![h] =
                          [rw EXCEPT !.meta = meta, !.currentPosition = meta.Size]]
                    /\ last' = [op |-> "GetFileWriter", h |-> h, id |-> id,
                                err |-> "nil", openWriters |-> others]
    /\ UNCHANGED FileChuckSize

\* GetFileWriter: GetFileWriterRelated with no related document
GetFileWriterOp(h, id) == GetFileWriterRelatedOp(h, id, "", "")

ReadOp(h, L) ==
    /\ Alive
    /\ handles[h].state = "open"
    /\ LET r == handles[h]
           res == ReadCore(r, L)
       IN  /\ handles' = [handles EXCEPT ![h] = res.hd]
           /\ last' = [op |-> "Read", h |-> h, L |-> L, off |-> r.currentPosition,
                       n |-> res.n, err |-> res.err, data |-> res.data,
                       R |-> ReadFileOut(r.txn, r.meta.ID), size |-> r.meta.Size,
                       afterSeek |-> IF last.op = "Seek" /\ last.h = h
                                     THEN last.err ELSE "none"]
    /\ UNCHANGED <<store, FileChuckSize>>

ReadAtOp(h, L, off) ==
    /\ Alive
    /\ handles[h].state = "open"
    /\ LET r == handles[h]
           res == ReadCore([r EXCEPT !.currentPosition = off], L)
       IN  IF checkReadWriteAt(r, off) # "nil"
           THEN /\ last' = [op |-> "ReadAt", h |-> h, L |-> L, off |-> off,
                            n |-> 0, err |-> checkReadWriteAt(r, off), data |-> << >>,
                            R |-> ReadFileOut(r.txn, r.meta.ID), size |-> r.meta.Size]
                /\ UNCHANGED handles
           ELSE /\ handles' = [handles EXCEPT ![h] = res.hd]
                /\ last' = [op |-> "ReadAt", h |-> h, L |-> L, off |-> off,
                            n |-> res.n, err |-> res.err, data |-> res.data,
                            R |-> ReadFileOut(r.txn, r.meta.ID), size |-> r.meta.Size]
    /\ UNCHANGED <<store, FileChuckSize>>

WriteOp(h, p) ==
    /\ Alive
    /\ handles[h].state = "open" /\ handles[h].writer
    /\ LET r == handles[h]
           res == WriteCore(r, store, p)
       IN  /\ store' = res.db
           /\ handles' = [handles EXCEPT ![h] = res.hd]
           /\ last' = [op |-> "Write", h |-> h, p |-> p, off |-> r.currentPosition,
                       n |-> res.n, err |-> res.err,
                       old |-> ReadFileOut(store, r.meta.ID),
                       oldSize |-> StoredSize(store, r.meta.ID),
                       hSize |-> r.meta.Size,
                       oldPos |-> r.currentPosition,
                       afterOpen |-> last.op = "GetFileWriter" /\ last.err = "nil"
                                     /\ last.h = h]
    /\ UNCHANGED FileChuckSize

WriteAtOp(h, p, off) ==
    /\ Alive
    /\ handles[h].state = "open" /\ handles[h].writer
    /\ LET r == handles[h]
           res == WriteCore([r EXCEPT !.currentPosition = off], store, p)
           rec == [op |-> "WriteAt", h |-> h, p |-> p, off |-> off,
                   old |-> ReadFileOut(store, r.meta.ID),
                   oldSize |-> StoredSize(store, r.meta.ID),
                   hSize |-> r.meta.Size,
                   oldPos |-> r.currentPosition]
       IN  IF checkReadWriteAt(r, off) # "nil"
           THEN /\ last' = rec @@ [n |-> 0, err |-> checkReadWriteAt(r, off)]
                /\ UNCHANGED <<store, handles>>
           ELSE /\ store' = res.db
                /\ handles' = [handles EXCEPT ![h] = res.hd]
                /\ last' = rec @@ [n |-> res.n, err |-> res.err]
    /\ UNCHANGED FileChuckSize

\* Close, called by the owner or by the timer (mustClose)
CloseOp(h, who) ==
    /\ Alive
    /\ handles[h].state = "open"
    /\ LET r == handles[h]
           meta == [r.meta EXCEPT !.inWrite = FALSE]
       IN  /\ store' = IF r.writer THEN putFileMeta(store, meta) ELSE store
           /\ handles' = [handles EXCEPT ![h] =
                 [r EXCEPT !.state = "closed",
                           !.meta = IF r.writer THEN meta ELSE r.meta]]
           /\ last' = [op |-> who, h |-> h, err |-> "nil"]
    /\ UNCHANGED FileChuckSize

\* Seek; the offsets tried keep the position between -1 and MaxSize
SeekOp(h, offset, whence) ==
    /\ Alive
    /\ handles[h].state = "open"
    /\ LET r == handles[h]
           known == whence \in {"SeekStart", "SeekCurrent", "SeekEnd"}
           n == CASE whence = "SeekStart" -> offset
                  [] whence = "SeekCurrent" -> r.currentPosition + offset
                  [] whence = "SeekEnd" -> r.meta.Size - offset
                  [] OTHER -> 0
           err == IF n > r.meta.Size \/ n < 0 THEN "out"
                  ELSE IF ~known THEN "whence" ELSE "nil"
       IN  /\ n >= -1 /\ n <= MaxSize
           /\ handles' = [handles EXCEPT ![h].currentPosition = n]
           /\ last' = [op |-> "Seek", h |-> h, offset |-> offset, whence |-> whence,
                       n |-> n, err |-> err, oldPos |-> r.currentPosition,
                       size |-> r.meta.Size]
    /\ UNCHANGED <<store, FileChuckSize>>

\* PutFileRelated
PutFileRelatedOp(id, P, reads, colName, documentID) ==
    /\ Alive
    /\ store' = PutFileRelatedDB(store, id, P, reads, colName, documentID)
    /\ last' = [op |-> "PutFileRelated", id |-> id, P |-> P, n |-> SumSeq(reads),
                err |-> "nil", colName |-> colName, documentID |-> documentID]
    /\ UNCHANGED <<FileChuckSize, handles>>

\* the ids of the files whose stored metadata names the document
RelatedByMeta(db, colName, documentID) ==
    {id \in FileIDs :
        /\ buildFilePrefix(id, 0) \in DOMAIN db
        /\ getFileMetaWithTxn(db, id).RelatedDocumentCollection = colName
        /\ getFileMetaWithTxn(db, id).RelatedDocumentID = documentID}

Range(f) == {f[i] : i \in DOMAIN f}

\* the deletion of a document of a collection, as far as files go: every
\* file of its related list is deleted, then the list itself
RECURSIVE DeleteFiles(_, _)
DeleteFiles(db, ids) ==
    IF ids = << >> THEN db ELSE DeleteFiles(DeleteFileFull(db, Head(ids)), Tail(ids))

DeleteDocumentDB(db, colName, documentID) ==
    Del(DeleteFiles(db, getRelatedFileIDsInternal(db, colName, documentID)),
        buildRelatedID(colName, documentID))

DeleteDocumentOp(colName, documentID) ==
    /\ Alive
    /\ store' = DeleteDocumentDB(store, colName, documentID)
    /\ last' = [op |-> "DeleteDocument", colName |-> colName, documentID |-> documentID,
                err |-> "nil",
                listed |-> Range(getRelatedFileIDsInternal(store, colName, documentID)),
                related |-> RelatedByMeta(store, colName, documentID)]
    /\ UNCHANGED <<FileChuckSize, handles>>

\* ------------------------------------------- the calls as actions
PutFileRelated(id, P, reads, colName, documentID) ==
    PutFileRelatedOp(id, P, reads, colName, documentID) /\ UNCHANGED probe
GetFileWriterRelated(h, id, colName, documentID) ==
    GetFileWriterRelatedOp(h, id, colName, documentID) /\ UNCHANGED probe
DeleteDocument(colName, documentID) == DeleteDocumentOp(colName, documentID) /\ UNCHANGED probe
PutFile(id, P, reads) == PutFileOp(id, P, reads) /\ UNCHANGED probe
ReadFile(id) == ReadFileOp(id) /\ UNCHANGED probe
DeleteFile(id) == DeleteFileOp(id) /\ UNCHANGED probe
GetFileReader(h, id) == GetFileReaderOp(h, id) /\ UNCHANGED probe
GetFileWriter(h, id) == GetFileWriterOp(h, id) /\ UNCHANGED probe
Read(h, L) == ReadOp(h, L) /\ UNCHANGED probe
ReadAt(h, L, off) == ReadAtOp(h, L, off) /\ UNCHANGED probe
Write(h, p) == WriteOp(h, p) /\ UNCHANGED probe
WriteAt(h, p, off) == WriteAtOp(h, p, off) /\ UNCHANGED probe
Seek(h, offset, whence) == SeekOp(h, offset, whence) /\ UNCHANGED probe
Close(h) == CloseOp(h, "Close") /\ UNCHANGED probe
mustClose(h) == CloseOp(h, "mustClose") /\ UNCHANGED probe

\* ------------------------------------------------------------ SpecFiles
NoHandles == << >>
NoProbe == [a |-> 0, b |-> 0, done |-> FALSE, ka |-> << >>, kb |-> << >>]

InitFiles ==
    /\ store = EmptyDB
    /\ FileChuckSize = ChunkBound
    /\ handles = NoHandles
    /\ last = [op |-> "open", err |-> "nil"]
    /\ probe = NoProbe

NextFiles ==
    \/ \E n \in 0..MaxLen : \E reads \in ReadPlans(n) : \E P \in [1..n -> Bytes] :
            PutFile(MainFile, P, reads)
    \/ PutFile(OtherFile, OtherPayload, FullReads(Len(OtherPayload)))
    \/ \E id \in FileIDs : ReadFile(id)
    \/ \E id \in FileIDs : DeleteFile(id)

SpecFiles == InitFiles /\ [][NextFiles]_vars

\* ------------------------------------------------------------- SpecKeys
\* the keys buildFilePrefix gives to two chunk numbers a < b of one file
\* (0 is the metadata record)
InitKeys ==
    /\ store = EmptyDB
    /\ FileChuckSize = ChunkBound
    /\ handles = NoHandles
    /\ last = [op |-> "open", err |-> "nil"]
    /\ probe \in {[a |-> a, b |-> b, done |-> FALSE, ka |-> << >>, kb |-> << >>] :
                    a \in 0..MaxChunkN, b \in 1..MaxChunkN}
    /\ probe.a < probe.b

BuildKeys ==
    /\ ~probe.done
    /\ probe' = [probe EXCEPT !.done = TRUE,
                              !.ka = buildFilePrefix(MainFile, probe.a),
                              !.kb = buildFilePrefix(MainFile, probe.b)]
    /\ UNCHANGED <<store, FileChuckSize, handles, last>>

NextKeys == BuildKeys

SpecKeys == InitKeys /\ [][NextKeys]_vars

\* ------------------------------------------------- the handle specs
\* the files put under MainFile here: byte i of the payload is FileByte(i),
\* read from a reader that fills the buffer (bytes.Buffer)
FileByte(i) == 10 + i
FilePayload(n) == [i \in 1..n |-> FileByte(i)]

\* the payloads written through a handle: byte j is WriteByte(j)
WriteByte(j) == 30 + j
WritePayload(k) == [j \in 1..k |-> WriteByte(j)]

InitHandles ==
    /\ store = EmptyDB
    /\ FileChuckSize = ChunkBound
    /\ handles = IdleHandles
    /\ last = [op |-> "open", err |-> "nil"]
    /\ probe = NoProbe

\* the size recorded in a handle grows with every Write: the calls that would
\* take it beyond MaxSize are not tried
Room(h, k) == handles[h].meta.Size + k <= MaxSize

NoneUsed == \A h \in Handles : handles[h].state = "none"

\* SpecWrite: a file is put, then writer handles are opened on it one after
\* the other and written through with Write and WriteAt
NextWrite ==
    \/ \E n \in 0..MaxFile : NoneUsed /\ PutFile(MainFile, FilePayload(n), FullReads(n))
    \/ GetFileWriter(1, MainFile)
    \/ \E k \in 0..MaxWrite : Room(1, k) /\ Write(1, WritePayload(k))
    \/ \E k \in 0..MaxWrite, off \in 0..MaxSize : Room(1, k) /\ WriteAt(1, WritePayload(k), off)
    \/ Close(1)

SpecWrite == InitHandles /\ [][NextWrite]_vars

\* SpecRead: one reader handle over MainFile, the file put again only while
\* no handle is open
NextRead ==
    \/ \E n \in 0..MaxFile :
          handles[1].state # "open" /\ PutFile(MainFile, FilePayload(n), FullReads(n))
    \/ GetFileReader(1, MainFile)
    \/ \E L \in 1..MaxBuf : Read(1, L)
    \/ \E L \in 1..MaxBuf, off \in 0..MaxFile : ReadAt(1, L, off)
    \/ \E offset \in 0..MaxFile, whence \in {"SeekStart", "SeekCurrent", "SeekEnd"} :
          Seek(1, offset, whence)
    \/ Close(1)

\* the files of SpecRead are cut at ChunkBound or at ChunkBound + 1 bytes
InitRead ==
    /\ store = EmptyDB
    /\ FileChuckSize \in {ChunkBound, ChunkBound + 1}
    /\ handles = IdleHandles
    /\ last = [op |-> "open", err |-> "nil"]
    /\ probe = NoProbe

SpecRead == InitRead /\ [][NextRead]_vars

\* SpecWriters: two callers opening, using and closing writer handles on
\* MainFile
NextWriters ==
    \/ \E h \in Handles : GetFileWriter(h, MainFile)
    \/ \E h \in Handles, k \in 1..MaxPiece :
          handles[h].meta.Size + k <= MaxShared /\ Write(h, WritePayload(k))
    \/ \E h \in Handles : Close(h)
    \/ \E h \in Handles : mustClose(h)

SpecWriters == InitHandles /\ [][NextWriters]_vars

\* ---------------------------------------------------------- SpecRelated
\* files stored as related to the documents of one collection, through
\* PutFileRelated and through writer handles, and documents deleted
Collection == "c"
Docs == {"d1", "d2"}

ListRoom(documentID) ==
    Len(getRelatedFileIDsInternal(store, Collection, documentID)) < MaxList

NextRelated ==
    \/ \E d \in Docs :
          ListRoom(d) /\ PutFileRelated(MainFile, FilePayload(1), FullReads(1), Collection, d)
    \/ ListRoom("d1") /\ PutFileRelated(OtherFile, FilePayload(1), FullReads(1), Collection, "d1")
    \/ \E d \in Docs : ListRoom(d) /\ GetFileWriterRelated(1, MainFile, Collection, d)
    \/ PutFile(MainFile, FilePayload(1), FullReads(1))
    \/ GetFileWriter(1, MainFile)
    \/ Close(1)
    \/ DeleteFile(MainFile)
    \/ \E d \in Docs : DeleteDocument(Collection, d)

SpecRelated == InitHandles /\ [][NextRelated]_vars

\* ------------------------------------------------------- SpecConcurrent
\* two callers, each in one call of PutFileRelated for a file related to
\* document d1, their write requests interleaved; a writer handle may have
\* been opened on MainFile before.  probe holds, for each caller, where it
\* is in PutFileRelated and its local variables.
Callers == {1, 2}
CallerPayload(c) == IF c = 1 THEN <<11, 12, 13>> ELSE <<21>>

InitConcurrent ==
    /\ store = EmptyDB
    /\ FileChuckSize = ChunkBound
    /\ handles = IdleHandles
    /\ last = [op |-> "open", err |-> "nil"]
    /\ \E ids \in [Callers -> FileIDs] :
          probe = [c \in Callers |->
                     [pc |-> "start", id |-> ids[c], fileIDs |-> << >>,
                      rest |-> CallerPayload(c), nChunk |-> 1, n |-> 0, err |-> "nil",
                      openAtStart |-> FALSE, before |-> << >>]]

\* the metadata PutFileRelated builds
CallerMeta(c) ==
    [buildMeta(probe[c].id) EXCEPT !.inWrite = TRUE,
                                   !.RelatedDocumentCollection = Collection,
                                   !.RelatedDocumentID = "d1"]

OpenWriterOn(id) ==
    \E h \in Handles : /\ handles[h].state = "open" /\ handles[h].writer
                        /\ handles[h].meta.ID = id

\* a writer handle opened before any caller has started
OpenWriterFirst ==
    /\ \A c \in Callers : probe[c].pc = "start"
    /\ handles[1].state = "none"
    /\ GetFileWriter(1, MainFile)

\* fs.DeleteFile(id)
StepDelete(c) ==
    /\ probe[c].pc = "start"
    /\ store' = DeleteFileFull(store, probe[c].id)
    /\ probe' = [probe EXCEPT ![c].pc = "readList",
                              ![c].openAtStart = OpenWriterOn(probe[c].id),
                              ![c].before = ReadFileOut(store, probe[c].id)]
    /\ UNCHANGED <<FileChuckSize, handles, last>>

\* addRelatedFileIDs: the list read in the view transaction
StepReadList(c) ==
    /\ probe[c].pc = "readList"
    /\ probe' = [probe EXCEPT ![c].pc = "writeList",
                              ![c].fileIDs = getRelatedFileIDsInternal(store, Collection, "d1")]
    /\ UNCHANGED <<store, FileChuckSize, handles, last>>

\* addRelatedFileIDs: the write request with the list appended to
StepWriteList(c) ==
    /\ probe[c].pc = "writeList"
    /\ store' = addRelatedWrite(store, Collection, "d1", probe[c].fileIDs, probe[c].id)
    /\ probe' = [probe EXCEPT ![c].pc = "putMeta"]
    /\ UNCHANGED <<FileChuckSize, handles, last>>

\* the first putFileMeta
StepPutMeta(c) ==
    /\ probe[c].pc = "putMeta"
    /\ store' = putFileMeta(store, CallerMeta(c))
    /\ probe' = [probe EXCEPT ![c].pc = "chunks"]
    /\ UNCHANGED <<FileChuckSize, handles, last>>

\* one turn of the loop: a full buffer read and written as the next chunk
StepChunk(c) ==
    /\ probe[c].pc = "chunks"
    /\ probe[c].rest # << >>
    /\ LET nWritten == IF Len(probe[c].rest) < FileChuckSize
                       THEN Len(probe[c].rest) ELSE FileChuckSize
       IN  /\ store' = writeFileChunk(store, probe[c].id, probe[c].nChunk,
                                      Take(probe[c].rest, nWritten)).db
           /\ probe' = [probe EXCEPT ![c].rest = Drop(@, nWritten),
                                     ![c].nChunk = @ + 1,
                                     ![c].n = @ + nWritten]
    /\ UNCHANGED <<FileChuckSize, handles, last>>

\* the reader is at its end: the metadata with the final size
StepFinalMeta(c) ==
    /\ probe[c].pc = "chunks"
    /\ probe[c].rest = << >>
    /\ store' = putFileMeta(store, [CallerMeta(c) EXCEPT !.Size = probe[c].n,
                                                         !.inWrite = FALSE])
    /\ probe' = [probe EXCEPT ![c].pc = "done"]
    /\ UNCHANGED <<FileChuckSize, handles, last>>

NextConcurrent ==
    \/ OpenWriterFirst
    \/ \E c \in Callers : StepDelete(c)
    \/ \E c \in Callers : StepReadList(c)
    \/ \E c \in Callers : StepWriteList(c)
    \/ \E c \in Callers : StepPutMeta(c)
    \/ \E c \in Callers : StepChunk(c)
    \/ \E c \in Callers : StepFinalMeta(c)

SpecConcurrent == InitConcurrent /\ [][NextConcurrent]_vars

\* ------------------------------------------------------ SpecCoordinator
\* the write queue and its coordinator (specification 4.3): producers
\* enqueue requests, each a vector of operations; the coordinator, one
\* task, takes them in FIFO order, skips the cancelled ones and commits the
\* others, one or two adjacent requests in one engine transaction; an
\* engine transaction that fails applies nothing.  probe holds the queue,
\* the committed requests in commit order, and what the last reader saw.
MaxQueue == 2
MaxLog == 3

\* transaction.NewOperation(collection, value, key, bytes, delete, clean)
NewOperation(key, valueAsBytes, delete) ==
    [key |-> key, value |-> valueAsBytes, delete |-> delete]

ApplyOperation(db, op) ==
    IF op.delete THEN Del(db, op.key) ELSE Set(db, op.key, op.value)

RECURSIVE ApplyOperations(_, _)
ApplyOperations(db, ops) ==
    IF ops = << >> THEN db
    ELSE ApplyOperations(ApplyOperation(db, Head(ops)), Tail(ops))

\* a faulty variant: the operations before the failing one stay applied
CommitRequest_UpToFailure(db, ops, ok) ==
    IF ok THEN ApplyOperations(db, ops) ELSE ApplyOperation(db, Head(ops))

\* one engine transaction: every operation or, when it fails, none
CommitRequest(db, ops, ok) ==
    IF ok THEN ApplyOperations(db, ops) ELSE db

\* the requests the producers send: both chunks of MainFile set, both
\* deleted, and the one-operation request of writeFileChunk
TxnRequests ==
    { << NewOperation(buildFilePrefix(MainFile, 1), <<11>>, FALSE),
         NewOperation(buildFilePrefix(MainFile, 2), <<12>>, FALSE) >> }
    \cup { << NewOperation(buildFilePrefix(MainFile, 1), << >>, TRUE),
              NewOperation(buildFilePrefix(MainFile, 2), << >>, TRUE) >> }
    \cup { << NewOperation(buildFilePrefix(OtherFile, 1), <<13>>, FALSE) >> }

InitCoordinator ==
    /\ store = EmptyDB
    /\ FileChuckSize = ChunkBound
    /\ handles = IdleHandles
    /\ last = [op |-> "open", err |-> "nil"]
    /\ probe = [queue |-> << >>, log |-> << >>, seen |-> EmptyDB, failed |-> FALSE]

\* fs.db.writeChan <- tx
Enqueue(ops) ==
    /\ Len(probe.queue) < MaxQueue
    /\ probe' = [probe EXCEPT !.queue = Append(@, [ops |-> ops, cancelled |-> FALSE])]
    /\ last' = [op |-> "Enqueue", err |-> "nil"]
    /\ UNCHANGED <<store, FileChuckSize, handles>>

\* the context of a queued request is cancelled
Cancel(i) ==
    /\ i \in 1..Len(probe.queue)
    /\ ~probe.queue[i].cancelled
    /\ probe' = [probe EXCEPT !.queue[i].cancelled = TRUE]
    /\ last' = [op |-> "Cancel", err |-> "nil"]
    /\ UNCHANGED <<store, FileChuckSize, handles>>

\* the coordinator skips a cancelled request
Skip ==
    /\ probe.queue # << >>
    /\ Head(probe.queue).cancelled
    /\ probe' = [probe EXCEPT !.queue = Tail(@)]
    /\ last' = [op |-> "Skip", err |-> "Cancelled"]
    /\ UNCHANGED <<store, FileChuckSize, handles>>

\* the operations of the first b requests of the queue, in order
RECURSIVE BatchOperations(_, _)
BatchOperations(queue, b) ==
    IF b = 0 THEN << >>
    ELSE BatchOperations(queue, b - 1) \o queue[b].ops

\* the coordinator commits the first b requests in one engine transaction
Commit(b, ok) ==
    /\ b \in 1..Len(probe.queue)
    /\ \A i \in 1..b : ~probe.queue[i].cancelled
    /\ Len(probe.log) + b <= MaxLog
    /\ store' = CommitRequest(store, BatchOperations(probe.queue, b), ok)
    /\ probe' = [probe EXCEPT
                   !.queue = Drop(@, b),
                   !.log = IF ok THEN @ \o [i \in 1..b |-> probe.queue[i].ops] ELSE @,
                   !.failed = @ \/ (~ok /\ Len(BatchOperations(probe.queue, b)) > 1)]
    /\ last' = [op |-> "Commit", err |-> IF ok THEN "nil" ELSE "EngineFailure"]
    /\ UNCHANGED <<FileChuckSize, handles>>

\* a reader opens a view transaction and reads the store
View ==
    /\ last.op # "View"
    /\ probe' = [probe EXCEPT !.seen = store]
    /\ last' = [op |-> "View", err |-> "nil"]
    /\ UNCHANGED <<store, FileChuckSize, handles>>

NextCoordinator ==
    \/ \E ops \in TxnRequests : Enqueue(ops)
    \/ \E i \in 1..MaxQueue : Cancel(i)
    \/ Skip
    \/ \E b \in 1..MaxQueue, ok \in BOOLEAN : Commit(b, ok)
    \/ View

SpecCoordinator == InitCoordinator /\ [][NextCoordinator]_vars

\* ----------------------------------------------------------- SpecClosed
\* calls on a handle after Close.  Close discards the transaction of the
\* handle and stops its timer; it sets no flag, and no method looks at one.
\* Each record of such a call carries closed |-> TRUE and the stored content
\* and metadata of before the call.
ClosedRecord(r) ==
    [closed |-> TRUE, old |-> ReadFileOut(store, r.meta.ID),
     oldMeta |-> getFileMetaWithTxn(store, r.meta.ID)]

\* Seek reads and writes fields of the handle only
SeekClosedOp(h, offset, whence) ==
    /\ Alive
    /\ handles[h].state = "closed"
    /\ LET r == handles[h]
           known == whence \in {"SeekStart", "SeekCurrent", "SeekEnd"}
           n == CASE whence = "SeekStart" -> offset
                  [] whence = "SeekCurrent" -> r.currentPosition + offset
                  [] whence = "SeekEnd" -> r.meta.Size - offset
                  [] OTHER -> 0
           err == IF n > r.meta.Size \/ n < 0 THEN "out"
                  ELSE IF ~known THEN "whence" ELSE "nil"
       IN  /\ n >= -1 /\ n <= MaxSize
           /\ handles' = [handles EXCEPT ![h].currentPosition = n]
           /\ last' = ClosedRecord(r) @@
                      [op |-> "Seek", h |-> h, offset |-> offset, whence |-> whence,
                       n |-> n, err |-> err]
    /\ UNCHANGED <<store, FileChuckSize>>

\* Write: getExistingBlock fails on the discarded transaction and Write
\* returns its error; the deferred afterWrite still runs: a new
\* transaction, len(p) added to the size and to the position, and the
\* metadata stored.  With its new transaction the handle is as an open one.
WriteClosedCore(r, db, p) ==
    LET r1 == [afterWriteHandle(r, db, Len(p)) EXCEPT !.state = "open"]
    IN  [n |-> 0, err |-> "ErrDiscardedTxn", db |-> putFileMeta(db, r1.meta), hd |-> r1]

WriteClosedOp(h, p) ==
    /\ Alive
    /\ handles[h].state = "closed" /\ handles[h].writer
    /\ LET r == handles[h]
           res == WriteClosedCore(r, store, p)
       IN  /\ store' = res.db
           /\ handles' = [handles EXCEPT ![h] = res.hd]
           /\ last' = ClosedRecord(r) @@
                      [op |-> "Write", h |-> h, p |-> p, n |-> res.n, err |-> res.err]
    /\ UNCHANGED FileChuckSize

WriteAtClosedOp(h, p, off) ==
    /\ Alive
    /\ handles[h].state = "closed" /\ handles[h].writer
    /\ LET r == handles[h]
           res == WriteClosedCore([r EXCEPT !.currentPosition = off], store, p)
           rec == ClosedRecord(r) @@ [op |-> "WriteAt", h |-> h, p |-> p, off |-> off]
       IN  IF checkReadWriteAt(r, off) # "nil"
           THEN /\ last' = rec @@ [n |-> 0, err |-> checkReadWriteAt(r, off)]
                /\ UNCHANGED <<store, handles>>
           ELSE /\ store' = res.db
                /\ handles' = [handles EXCEPT ![h] = res.hd]
                /\ last' = rec @@ [n |-> res.n, err |-> res.err]
    /\ UNCHANGED FileChuckSize

\* Read: an iterator is asked of the discarded transaction; the engine
\* either panics or hands one out, and then Read goes on as on an open
\* handle
ReadClosedOp(h, L, panics) ==
    /\ Alive
    /\ handles[h].state = "closed"
    /\ LET r == handles[h]
           res == ReadCore(r, L)
           rec == ClosedRecord(r) @@ [op |-> "Read", h |-> h, L |-> L]
       IN  IF panics
           THEN /\ last' = rec @@ [n |-> 0, err |-> "panic", data |-> << >>]
                /\ UNCHANGED handles
           ELSE /\ handles' = [handles EXCEPT ![h] = res.hd]
                /\ last' = rec @@ [n |-> res.n, err |-> res.err, data |-> res.data]
    /\ UNCHANGED <<store, FileChuckSize>>

ReadAtClosedOp(h, L, off, panics) ==
    /\ Alive
    /\ handles[h].state = "closed"
    /\ LET r == handles[h]
           res == ReadCore([r EXCEPT !.currentPosition = off], L)
           rec == ClosedRecord(r) @@ [op |-> "ReadAt", h |-> h, L |-> L, off |-> off]
       IN  IF checkReadWriteAt(r, off) # "nil"
           THEN /\ last' = rec @@ [n |-> 0, err |-> checkReadWriteAt(r, off), data |-> << >>]
                /\ UNCHANGED handles
           ELSE IF panics
           THEN /\ last' = rec @@ [n |-> 0, err |-> "panic", data |-> << >>]
                /\ handles' = [handles EXCEPT ![h].currentPosition = off]
           ELSE /\ handles' = [handles EXCEPT ![h] = res.hd]
                /\ last' = rec @@ [n |-> res.n, err |-> res.err, data |-> res.data]
    /\ UNCHANGED <<store, FileChuckSize>>

SeekClosed(h, offset, whence) == SeekClosedOp(h, offset, whence) /\ UNCHANGED probe
WriteClosed(h, p) == WriteClosedOp(h, p) /\ UNCHANGED probe
WriteAtClosed(h, p, off) == WriteAtClosedOp(h, p, off) /\ UNCHANGED probe
ReadClosed(h, L, panics) == ReadClosedOp(h, L, panics) /\ UNCHANGED probe
ReadAtClosed(h, L, off, panics) == ReadAtClosedOp(h, L, off, panics) /\ UNCHANGED probe

\* the calls that would take the size recorded in the handle beyond
\* MaxFile + MaxPiece are not tried
SharedRoom(h, k) == handles[h].meta.Size + k <= MaxFile + MaxPiece

\* SpecClosed: a file is put, a writer handle is opened on it, written
\* through and closed, by its owner or by its timer, and then used again
NextClosed ==
    \/ \E n \in {0, MaxFile} : NoneUsed /\ PutFile(MainFile, FilePayload(n), FullReads(n))
    \/ handles[1].state = "none" /\ GetFileWriter(1, MainFile)
    \/ SharedRoom(1, 1) /\ Write(1, WritePayload(1))
    \/ Close(1)
    \/ mustClose(1)
    \/ \E n \in 0..MaxPiece : SeekClosed(1, n, "SeekStart")
    \/ SharedRoom(1, 1) /\ WriteClosed(1, WritePayload(1))
    \/ \E off \in 0..MaxPiece : SharedRoom(1, 1) /\ WriteAtClosed(1, WritePayload(1), off)
    \/ \E panics \in BOOLEAN : ReadClosed(1, MaxBuf, panics)
    \/ \E off \in 0..MaxPiece, panics \in BOOLEAN : ReadAtClosed(1, MaxBuf, off, panics)

SpecClosed == InitHandles /\ [][NextClosed]_vars

\* ------------------------------------------------------- SpecCloseTwice
\* Close on a handle that is closed already, by its owner or by its timer.
\* Close looks at no state of the handle but writer: it stores the
\* metadata the handle holds once more, discards the transaction again and
\* stops the timer again.  The record carries again |-> TRUE and the store
\* of before the call.
CloseAgainOp(h, who) ==
    /\ Alive
    /\ handles[h].state = "closed"
    /\ LET r == handles[h]
           meta == [r.meta EXCEPT !.inWrite = FALSE]
       IN  /\ store' = IF r.writer THEN putFileMeta(store, meta) ELSE store
           /\ handles' = [handles EXCEPT ![h] =
                 [r EXCEPT !.meta = IF r.writer THEN meta ELSE r.meta]]
           /\ last' = [op |-> who, h |-> h, err |-> "nil", again |-> TRUE,
                       before |-> store]
    /\ UNCHANGED FileChuckSize

CloseAgain(h) == CloseAgainOp(h, "Close") /\ UNCHANGED probe
mustCloseAgain(h) == CloseAgainOp(h, "mustClose") /\ UNCHANGED probe

\* SpecCloseTwice: two handles on MainFile, a writer and then a second
\* writer or a reader, written through and closed, the file deleted, and
\* closed handles closed again
NextCloseTwice ==
    \/ handles[1].state = "none" /\ GetFileWriter(1, MainFile)
    \/ handles[2].state = "none" /\ handles[1].state = "closed" /\ GetFileWriter(2, MainFile)
    \/ handles[2].state = "none" /\ GetFileReader(2, MainFile)
    \/ \E h \in Handles, k \in 1..MaxPiece :
          handles[h].meta.Size + k <= MaxShared /\ Write(h, WritePayload(k))
    \/ \E h \in Handles : Close(h)
    \/ mustClose(1)
    \/ DeleteFile(MainFile)
    \/ \E h \in Handles : CloseAgain(h)
    \/ mustCloseAgain(1)

SpecCloseTwice == InitHandles /\ [][NextCloseTwice]_vars

\* ------------------------------------------------------------- SpecTimer
\* the timer of a handle.  newReadWriter starts it with time.AfterFunc
\* (timeout, mustClose); Close stops it; nothing else touches it.  Time is
\* counted in ticks; probe holds the clock, the tick at which the timer
\* fires and the tick of the last call on the handle.
MaxIdle == 2
MaxClock == 4
ReaderWriterTimeout == MaxIdle

InitTimer ==
    /\ store = EmptyDB
    /\ FileChuckSize = ChunkBound
    /\ handles = IdleHandles
    /\ last = [op |-> "open", err |-> "nil"]
    /\ probe = [now |-> 0, deadLineTimer |-> 0, lastUse |-> 0]

Used == probe' = [probe EXCEPT !.lastUse = probe.now]

\* newReadWriter: the timer is set to fire one timeout from now
OpenTimed ==
    /\ handles[1].state = "none"
    /\ GetFileWriterOp(1, MainFile)
    /\ probe' = [probe EXCEPT !.deadLineTimer = probe.now + ReaderWriterTimeout,
                              !.lastUse = probe.now]

WriteTimed(p) == handles[1].meta.Size + Len(p) <= MaxPiece /\ WriteOp(1, p) /\ Used
WriteAtTimed(p, off) == handles[1].meta.Size + Len(p) <= MaxPiece /\ WriteAtOp(1, p, off) /\ Used
ReadTimed(L) == ReadOp(1, L) /\ Used
ReadAtTimed(L, off) == ReadAtOp(1, L, off) /\ Used
SeekTimed(n) == SeekOp(1, n, "SeekStart") /\ Used

\* Close by the owner: the timer is stopped
CloseTimed == CloseOp(1, "Close") /\ UNCHANGED probe

\* the timer fires: mustClose
TimerFires ==
    /\ handles[1].state = "open"
    /\ probe.now = probe.deadLineTimer
    /\ CloseOp(1, "mustClose")
    /\ UNCHANGED probe

\* time passes, but not past a timer that is due
Tick ==
    /\ Alive
    /\ probe.now < MaxClock
    /\ ~(handles[1].state = "open" /\ probe.now = probe.deadLineTimer)
    /\ probe' = [probe EXCEPT !.now = @ + 1]
    /\ UNCHANGED <<store, FileChuckSize, handles, last>>

NextTimer ==
    \/ OpenTimed
    \/ WriteTimed(WritePayload(1))
    \/ WriteAtTimed(WritePayload(1), 0)
    \/ ReadTimed(1)
    \/ ReadAtTimed(1, 0)
    \/ SeekTimed(0)
    \/ CloseTimed
    \/ TimerFires
    \/ Tick

SpecTimer == InitTimer /\ [][NextTimer]_vars

\* -------------------------------------------------------------- SpecDocs
\* the documents of a collection (specification 4.6): Put serializes the
\* body and stores it under the document key, Get reads and deserializes
\* it, Delete removes it and what is related to it; Close and Open leave
\* the engine as it is.  probe holds whether the database is open, whether
\* it has been reopened, and for every id what the calls so far make of it:
\* the value of the last Put, or NeverPut, or Deleted.
prefixCollections == 1
prefixCollectionsData == 0

\* the document key: the collections prefix, the prefix of the collection,
\* the data tag and the bytes of the id
buildDocumentKey(colName, id) ==
    <<prefixCollections, colPrefix(colName), prefixCollectionsData, docBytes(id)>>

\* the bodies put: raw bytes, stored as they are, and users, stored as JSON
RawBody(bytes) == [raw |-> TRUE, name |-> "", bytes |-> bytes]
UserBody(name) == [raw |-> FALSE, name |-> name, bytes |-> << >>]
NeverPut == [raw |-> TRUE, name |-> "never", bytes |-> << >>]
Deleted == [raw |-> TRUE, name |-> "deleted", bytes |-> << >>]
Bodies == {RawBody(<<1>>), RawBody(<<1, 2>>), UserBody("alice"), UserBody("bob")}

\* json.Marshal of a user: one byte stands for the name, between braces
NameByte(name) == IF name = "alice" THEN 97 ELSE 98
ByteName(b) == IF b = 97 THEN "alice" ELSE "bob"
MarshalBody(body) ==
    IF body.raw THEN body.bytes ELSE <<123, NameByte(body.name), 125>>
UnmarshalBody(bytes, raw) ==
    IF raw THEN RawBody(bytes) ELSE UserBody(ByteName(bytes[2]))

PutDocumentDB(db, colName, id, body) ==
    Set(db, buildDocumentKey(colName, id), MarshalBody(body))

\* a faulty variant: the document key stays
DeleteDocumentKey_Keep(db, colName, id) == db

DeleteDocumentKey(db, colName, id) == Del(db, buildDocumentKey(colName, id))

InitDocs ==
    /\ store = EmptyDB
    /\ FileChuckSize = ChunkBound
    /\ handles = IdleHandles
    /\ last = [op |-> "Open", err |-> "nil"]
    /\ probe = [open |-> TRUE, reopened |-> FALSE, doc |-> [d \in Docs |-> NeverPut]]

PutDoc(id, body) ==
    /\ probe.open
    /\ store' = PutDocumentDB(store, Collection, id, body)
    /\ probe' = [probe EXCEPT !.doc[id] = body]
    /\ last' = [op |-> "Put", id |-> id, err |-> "nil"]
    /\ UNCHANGED <<FileChuckSize, handles>>

\* Get into a destination of the kind of the body that was put
GetDoc(id) ==
    /\ probe.open
    /\ last' = IF buildDocumentKey(Collection, id) \in DOMAIN store
               THEN [op |-> "Get", id |-> id, err |-> "nil",
                     body |-> UnmarshalBody(store[buildDocumentKey(Collection, id)],
                                            probe.doc[id].raw)]
               ELSE [op |-> "Get", id |-> id, err |-> "ErrNotFound", body |-> NeverPut]
    /\ UNCHANGED <<store, FileChuckSize, handles, probe>>

\* Delete: the document key, then the files related to the document
DeleteDoc(id) ==
    /\ probe.open
    /\ store' = DeleteDocumentDB(DeleteDocumentKey(store, Collection, id), Collection, id)
    /\ probe' = [probe EXCEPT !.doc[id] = IF @ = NeverPut THEN NeverPut ELSE Deleted]
    /\ last' = [op |-> "Delete", id |-> id,
                err |-> IF buildDocumentKey(Collection, id) \in DOMAIN store
                        THEN "nil" ELSE "ErrNotFound"]
    /\ UNCHANGED <<FileChuckSize, handles>>

CloseDB ==
    /\ probe.open
    /\ probe' = [probe EXCEPT !.open = FALSE]
    /\ last' = [op |-> "CloseDB", err |-> "nil"]
    /\ UNCHANGED <<store, FileChuckSize, handles>>

OpenDB ==
    /\ ~probe.open
    /\ probe' = [probe EXCEPT !.open = TRUE, !.reopened = TRUE]
    /\ last' = [op |-> "Open", err |-> "nil"]
    /\ UNCHANGED <<store, FileChuckSize, handles>>

NextDocs ==
    \/ \E id \in Docs, body \in Bodies : PutDoc(id, body)
    \/ \E id \in Docs : GetDoc(id)
    \/ \E id \in Docs : DeleteDoc(id)
    \/ CloseDB
    \/ OpenDB

SpecDocs == InitDocs /\ [][NextDocs]_vars

\* ------------------------------------------------------------ SpecAppend
\* SpecAppend: a file is put, writer handles are opened on it one after the
\* other, written through with Write and WriteAt and closed, and a reader
\* handle is opened
\* the calls that would take the size recorded in the handle beyond twice
\* MaxPiece are not tried
AppendRoom == handles[1].meta.Size < 2 * MaxPiece

NextAppend ==
    \/ \E n \in {0, MaxPiece} : NoneUsed /\ PutFile(MainFile, FilePayload(n), FullReads(n))
    \/ GetFileWriter(1, MainFile)
    \/ AppendRoom /\ Write(1, WritePayload(1))
    \/ \E off \in 0..MaxPiece : AppendRoom /\ WriteAt(1, WritePayload(1), off)
    \/ Close(1)
    \/ handles[2].state = "none" /\ GetFileReader(2, MainFile)
    \/ Close(2)

SpecAppend == InitHandles /\ [][NextAppend]_vars

\* ---------------------------------------------------------- SpecBlocking
\* the callers of the write queue.  Each builds a request with a context,
\* sends it on writeChan and waits for the response or for the end of the
\* context of the request:
\*   writeFileChunk      context.WithCancel(context.Background()); the send
\*                       is a select with fs.db.ctx.Done()
\*   addRelatedFileIDs   context.WithCancel(context.Background()); the send
\*                       stands alone
\*   DeleteFile          context.WithCancel(fs.db.ctx); the send stands alone
\* The coordinator (specification 4.3) answers the requests in FIFO order
\* while the context of the database lives.  probe holds where each caller
\* is, the queue, and whether the context of the database is cancelled.
QueueCap == 1
Producers == {"writeFileChunk", "addRelatedFileIDs", "DeleteFile"}

\* the send is in a select with the context of the database
SendSelects(p) == p = "writeFileChunk"
\* the context of the request ends with the context of the database
CtxFromDB(p) == p = "DeleteFile"

InitBlocking ==
    /\ store = EmptyDB
    /\ FileChuckSize = ChunkBound
    /\ handles = IdleHandles
    /\ last = [op |-> "open", err |-> "nil"]
    /\ probe = [pc |-> [p \in Producers |-> "idle"], writeChan |-> << >>,
                cancelled |-> FALSE]

\* the request is built
Submit(p) ==
    /\ probe.pc[p] = "idle"
    /\ probe' = [probe EXCEPT !.pc[p] = "sending"]
    /\ last' = [op |-> "Submit", p |-> p, err |-> "nil"]
    /\ UNCHANGED <<store, FileChuckSize, handles>>

\* fs.db.writeChan <- tx
Send(p) ==
    /\ probe.pc[p] = "sending"
    /\ Len(probe.writeChan) < QueueCap
    /\ probe' = [probe EXCEPT !.pc[p] = "waiting", !.writeChan = Append(@, p)]
    /\ last' = [op |-> "Send", p |-> p, err |-> "nil"]
    /\ UNCHANGED <<store, FileChuckSize, handles>>

\* case <-fs.db.ctx.Done(): return fs.db.ctx.Err()
SendGivenUp(p) ==
    /\ probe.pc[p] = "sending"
    /\ SendSelects(p)
    /\ probe.cancelled
    /\ probe' = [probe EXCEPT !.pc[p] = "returned"]
    /\ last' = [op |-> "Return", p |-> p, err |-> "Cancelled"]
    /\ UNCHANGED <<store, FileChuckSize, handles>>

\* what the request of a caller does to the engine
RequestEffect(db, p) ==
    CASE p = "writeFileChunk" -> writeFileChunk(db, MainFile, 1, <<11>>).db
      [] p = "addRelatedFileIDs" ->
            addRelatedWrite(db, Collection, "d1",
                            getRelatedFileIDsInternal(db, Collection, "d1"), MainFile)
      [] OTHER -> Del(db, buildFilePrefix(MainFile, 1))

\* the coordinator commits the first request of the queue and answers it;
\* case err = <-tx.ResponseChan
Serve ==
    /\ ~probe.cancelled
    /\ probe.writeChan # << >>
    /\ store' = RequestEffect(store, Head(probe.writeChan))
    /\ probe' = [probe EXCEPT !.pc[Head(probe.writeChan)] = "returned",
                              !.writeChan = Tail(@)]
    /\ last' = [op |-> "Return", p |-> Head(probe.writeChan), err |-> "nil"]
    /\ UNCHANGED <<FileChuckSize, handles>>

\* case <-tx.Ctx.Done(): err = tx.Ctx.Err()
WaitGivenUp(p) ==
    /\ probe.pc[p] = "waiting"
    /\ CtxFromDB(p)
    /\ probe.cancelled
    /\ probe' = [probe EXCEPT !.pc[p] = "returned"]
    /\ last' = [op |-> "Return", p |-> p, err |-> "Cancelled"]
    /\ UNCHANGED <<store, FileChuckSize, handles>>

\* the context of the database is cancelled: the coordinator stops
CancelDB ==
    /\ ~probe.cancelled
    /\ probe' = [probe EXCEPT !.cancelled = TRUE]
    /\ last' = [op |-> "CancelDB", err |-> "nil"]
    /\ UNCHANGED <<store, FileChuckSize, handles>>

\* the caller calls again, while the related list is short
Again(p) ==
    /\ probe.pc[p] = "returned"
    /\ Len(getRelatedFileIDsInternal(store, Collection, "d1")) < MaxList
    /\ probe' = [probe EXCEPT !.pc[p] = "idle"]
    /\ last' = [op |-> "Again", p |-> p, err |-> "nil"]
    /\ UNCHANGED <<store, FileChuckSize, handles>>

NextBlocking ==
    \/ \E p \in Producers : Submit(p)
    \/ \E p \in Producers : Send(p)
    \/ \E p \in Producers : SendGivenUp(p)
    \/ Serve
    \/ \E p \in Producers : WaitGivenUp(p)
    \/ CancelDB
    \/ \E p \in Producers : Again(p)

\* every step that is up to the coordinator or to a select of a caller is
\* taken when it stays possible
SpecBlocking ==
    /\ InitBlocking /\ [][NextBlocking]_vars
    /\ WF_vars(Serve)
    /\ \A p \in Producers : /\ WF_vars(Send(p))
                            /\ WF_vars(SendGivenUp(p))
                            /\ WF_vars(WaitGivenUp(p))

\* --------------------------------------------------------------- SpecTTL
\* PutFileWithTTL and GetFileWriterWithTTL: the file call, then
\* go fs.putFileTTL(id, ttl), then the return.  putFileTTL runs on its own:
\* it sends one request that sets a TTL record and waits for the answer, for
\* ten seconds at most.  probe holds the ids whose putFileTTL has been
\* started and has not ended, and the number of TTL records written.
prefixTTL == 4
MaxTTL == 2

\* newTTL("", id, true, ttl): the key stands for timeAsKey, the value for
\* exportAsBytes
ttlKey(n) == <<prefixTTL, n>>
ttlRecord(id) == [File |-> TRUE, DocumentCollection |-> "", ID |-> id]

TTLRecorded(db, id) ==
    \E k \in DOMAIN db : k[1] = prefixTTL /\ db[k] = ttlRecord(id)

InitTTL ==
    /\ store = EmptyDB
    /\ FileChuckSize = ChunkBound
    /\ handles = IdleHandles
    /\ last = [op |-> "open", err |-> "nil"]
    /\ probe = [started |-> {}, written |-> 0]

\* PutFileRelated with a reader whose first Read returns an error: the file
\* is deleted, the first metadata is stored, the error is returned
PutFileReadErrorDB(db, id) ==
    putFileMeta(DeleteFileFull(db, id), [buildMeta(id) EXCEPT !.inWrite = TRUE])

\* PutFileWithTTL; readOK: the reader gives its bytes, or fails at once
PutFileWithTTL(id, P, readOK) ==
    /\ id \notin probe.started
    /\ store' = IF readOK THEN PutFileDB(store, id, P, FullReads(Len(P)))
                ELSE PutFileReadErrorDB(store, id)
    /\ probe' = [probe EXCEPT !.started = @ \cup {id}]
    /\ last' = [op |-> "PutFileWithTTL", id |-> id,
                n |-> IF readOK THEN Len(P) ELSE 0,
                err |-> IF readOK THEN "nil" ELSE "reader"]
    /\ UNCHANGED <<FileChuckSize, handles>>

GetFileWriterWithTTL(h, id) ==
    /\ id \notin probe.started
    /\ GetFileWriterOp(h, id)
    /\ probe' = [probe EXCEPT !.started = @ \cup {id}]

\* putFileTTL: the request is committed and answered
putFileTTL(id) ==
    /\ id \in probe.started
    /\ probe.written < MaxTTL
    /\ store' = Set(store, ttlKey(probe.written + 1), ttlRecord(id))
    /\ probe' = [probe EXCEPT !.started = @ \ {id}, !.written = @ + 1]
    /\ last' = [op |-> "putFileTTL", id |-> id, err |-> "nil"]
    /\ UNCHANGED <<FileChuckSize, handles>>

\* putFileTTL: the context of the database ends before the send, and
\* putFileTTL returns
putFileTTLGivenUp(id) ==
    /\ id \in probe.started
    /\ probe' = [probe EXCEPT !.started = @ \ {id}]
    /\ last' = [op |-> "putFileTTL", id |-> id, err |-> "Cancelled"]
    /\ UNCHANGED <<store, FileChuckSize, handles>>

NextTTL ==
    \/ \E id \in FileIDs, readOK \in BOOLEAN :
          PutFileWithTTL(id, FilePayload(1), readOK)
    \/ handles[1].state = "none" /\ GetFileWriterWithTTL(1, MainFile)
    \/ Close(1)
    \/ \E id \in FileIDs : putFileTTL(id)
    \/ \E id \in FileIDs : putFileTTLGivenUp(id)

SpecTTL == InitTTL /\ [][NextTTL]_vars

\* ---------------------------------------------------------- SpecSnapshot
\* SpecSnapshot: a reader handle (1) and a writer handle (2) on MainFile at
\* the same time.  probe holds the content of the file as committed when
\* the reader was opened, and whether the last call on the reader was its
\* first Read.
InitSnapshot ==
    /\ store = EmptyDB
    /\ FileChuckSize = ChunkBound
    /\ handles = IdleHandles
    /\ last = [op |-> "open", err |-> "nil"]
    /\ probe = [snap |-> << >>, fresh |-> FALSE, wasFresh |-> FALSE]

OpenReader ==
    /\ GetFileReaderOp(1, MainFile)
    /\ probe' = [snap |-> ReadFileOut(store, MainFile), fresh |-> TRUE, wasFresh |-> FALSE]

ReadSnap(L) ==
    /\ ReadOp(1, L)
    /\ probe' = [probe EXCEPT !.fresh = FALSE, !.wasFresh = probe.fresh]

ReadAtSnap(L, off) ==
    /\ ReadAtOp(1, L, off)
    /\ probe' = [probe EXCEPT !.fresh = FALSE, !.wasFresh = FALSE]

\* the size recorded in the writer handle is kept within MaxShared
WriterRoom == handles[2].meta.Size < MaxShared

NextSnapshot ==
    \/ NoneUsed /\ PutFile(MainFile, FilePayload(MaxPiece), FullReads(MaxPiece))
    \/ OpenReader
    \/ \E L \in 1..MaxBuf : ReadSnap(L)
    \/ \E off \in 0..MaxPiece : ReadAtSnap(MaxBuf, off)
    \/ Close(1)
    \/ handles[2].state = "none" /\ GetFileWriter(2, MainFile)
    \/ WriterRoom /\ Write(2, WritePayload(1))
    \/ \E off \in 0..MaxPiece : WriterRoom /\ WriteAt(2, WritePayload(1), off)
    \/ Close(2)

SpecSnapshot == InitSnapshot /\ [][NextSnapshot]_vars

\* ----------------------------------------------------------- SpecIterator
\* the file iterator over a store whose files hold, among their chunks, the
\* chunks 256 and 512, whose keys end in the byte 0 like a metadata key
\* len(dbKey) of a metadata key: prefixFiles, the digest and the byte 0 (34
\* with the 32 bytes of the digest, that one byte stands for here)
metaKeyLen == 3

\* the position of the first byte of chunk n
ChunkStart(n) == (n - 1) * FileChuckSize

\* Seek(offset, io.SeekStart), the offset as far as the caller likes: the
\* position is assigned, also when the offset is reported out of the file
SeekStartOp(h, offset) ==
    /\ Alive
    /\ handles[h].state = "open"
    /\ LET r == handles[h]
           n == offset
           err == IF n > r.meta.Size \/ n < 0 THEN "out" ELSE "nil"
       IN  /\ handles' = [handles EXCEPT ![h].currentPosition = n]
           /\ last' = [op |-> "Seek", h |-> h, offset |-> offset, whence |-> "SeekStart",
                       n |-> n, err |-> err, oldPos |-> r.currentPosition,
                       size |-> r.meta.Size]
    /\ UNCHANGED <<store, FileChuckSize>>

SeekStart(h, offset) == SeekStartOp(h, offset) /\ UNCHANGED probe

nilMeta == [ID |-> "nil"]

\* no iterator yet
NoIterator ==
    [open |-> FALSE, txn |-> EmptyDB, keys |-> << >>, pos |-> 0,
     item |-> << >>, meta |-> nilMeta, rest |-> << >>]

InitIterator ==
    /\ store = EmptyDB
    /\ FileChuckSize = ChunkBound
    /\ handles = IdleHandles
    /\ last = [op |-> "open", err |-> "nil"]
    /\ probe = NoIterator

\* the read transaction and its engine iterator after Seek([]byte{prefixFiles}):
\* keys holds what the engine iterator runs over, pos its cursor; rest is the
\* list of the keys the cursor has rested on when a call returned nil
GetFileIterator ==
    /\ Alive
    /\ LET keys == SortKeys({k \in DOMAIN store : ~LexLess(k, <<prefixFiles>>)})
       IN  probe' = [open |-> TRUE, txn |-> store, keys |-> keys, pos |-> 1,
                     item |-> << >>, meta |-> nilMeta,
                     rest |-> IF keys = << >> THEN << >> ELSE <<keys[1]>>]
    /\ last' = [op |-> "GetFileIterator", err |-> "nil"]
    /\ UNCHANGED <<store, FileChuckSize, handles>>

\* baseIterator.valid(prefix): the engine's ValidForPrefix, and the item under
\* the cursor is kept
valid(it, prefix) ==
    IF it.pos <= Len(it.keys) /\ ValidForPrefix(it.keys[it.pos], prefix)
    THEN [ok |-> TRUE, it |-> [it EXCEPT !.item = it.keys[it.pos]]]
    ELSE [ok |-> FALSE, it |-> it]

\* json.Unmarshal into a FileMeta succeeds on what putFileMeta wrote (the
\* values under the metadata keys) and fails on the bytes of a chunk
DecodesAsMeta(dbKey) == \E id \in FileIDs : dbKey = buildFilePrefix(id, 0)

\* a faulty variant: the length of the key is not looked at
isMetaChunk_LastByteOnly(it) ==
    LET dbKey == it.item
    IN  IF dbKey[Len(dbKey)] # 0
        THEN [isMeta |-> FALSE, err |-> "nil", it |-> it]
        ELSE IF ~DecodesAsMeta(dbKey)
        THEN [isMeta |-> FALSE, err |-> "json", it |-> it]
        ELSE [isMeta |-> TRUE, err |-> "nil",
              it |-> [it EXCEPT !.meta = UnmarshalMeta(it.txn[dbKey])]]

isMetaChunk(it) ==
    LET dbKey == it.item
    IN  IF Len(dbKey) # metaKeyLen \/ dbKey[Len(dbKey)] # 0
        THEN [isMeta |-> FALSE, err |-> "nil", it |-> it]
        ELSE IF ~DecodesAsMeta(dbKey)
        THEN [isMeta |-> FALSE, err |-> "json", it |-> it]
        ELSE [isMeta |-> TRUE, err |-> "nil",
              it |-> [it EXCEPT !.meta = UnmarshalMeta(it.txn[dbKey])]]

\* FileIterator.Valid
IteratorValid(it) ==
    LET v == valid(it, <<prefixFiles>>)
    IN  IF v.ok THEN [ok |-> TRUE, it |-> isMetaChunk(v.it).it]
        ELSE [ok |-> FALSE, it |-> v.it]

\* badgerIter.Next(): one key further, and no further than the end
badgerIterNext(it) ==
    [it EXCEPT !.pos = IF @ <= Len(it.keys) THEN @ + 1 ELSE @]

\* the loop of FileIterator.Next from its label goToNext
RECURSIVE goToNext(_)
goToNext(it) ==
    LET v == IteratorValid(it)
    IN  IF ~v.ok THEN [err |-> "ErrFileItemIteratorNotValid", it |-> v.it]
        ELSE LET m == isMetaChunk(v.it)
             IN  IF m.err # "nil" THEN [err |-> m.err, it |-> m.it]
                 ELSE IF ~m.isMeta THEN goToNext(badgerIterNext(m.it))
                 ELSE [err |-> "nil", it |-> m.it]

IteratorNext ==
    /\ Alive
    /\ probe.open
    /\ LET r == goToNext(badgerIterNext(probe))
       IN  /\ probe' = [r.it EXCEPT !.rest = IF r.err = "nil"
                                              THEN @ \o <<r.it.keys[r.it.pos]>>
                                              ELSE @]
           /\ last' = [op |-> "Next", err |-> r.err,
                       from |-> probe.pos, to |-> r.it.pos]
    /\ UNCHANGED <<store, FileChuckSize, handles>>

IteratorValidCall ==
    /\ Alive
    /\ probe.open
    /\ LET v == IteratorValid(probe)
       IN  /\ probe' = v.it
           /\ last' = [op |-> "Valid", err |-> "nil", ok |-> v.ok]
    /\ UNCHANGED <<store, FileChuckSize, handles>>

\* before the iterator is taken the files are put whole and the writer of
\* MainFile writes one byte at the start of chunk 256 or of chunk 512 after a
\* Seek to it; once it is taken the other file is put or deleted
NextIterator ==
    \/ ~probe.open /\ handles[1].state # "open" /\ GetFileIterator
    \/ IteratorValidCall
    \/ IteratorNext
    \/ /\ ~probe.open /\ handles[1].state = "none"
       /\ \E n \in {0, MaxPiece} : PutFile(MainFile, FilePayload(n), FullReads(n))
    \/ /\ ~probe.open /\ handles[1].state = "none"
       /\ PutFileRelated(OtherFile, FilePayload(1), FullReads(1), Collection, "d1")
    \/ ~probe.open /\ handles[1].state = "none" /\ GetFileWriter(1, MainFile)
    \/ ~probe.open /\ \E n \in {256, 512} : SeekStart(1, ChunkStart(n))
    \/ /\ ~probe.open
       /\ handles[1].state = "open"
       /\ handles[1].currentPosition > handles[1].meta.Size
       /\ handles[1].meta.Size < 2 * MaxPiece
       /\ Write(1, WritePayload(1))
    \/ ~probe.open /\ Close(1)
    \/ PutFile(OtherFile, FilePayload(MaxPiece), FullReads(MaxPiece))
    \/ DeleteFile(OtherFile)

SpecIterator == InitIterator /\ [][NextIterator]_vars

\* ----------------------------------------------------------- SpecIndex
\* the range scans of an index of the collection
\* largest options.InternalQueryLimit the database is opened with
MaxLimit == 2
\* the indexed values: MaxValue of them, of one byte each
MaxValue == 3
ValueByte(v) == 20 + v
IndexValues == {<<ValueByte(v)>> : v \in 1..MaxValue}

prefixCollectionsBleveIndex == 1

\* i.getIDBuilder(indexedValue): the prefix of the index with the bytes of the
\* indexed value behind it; getIDBuilder(nil) is the prefix alone
getIDBuilder(indexedValue) ==
    <<prefixCollections, colPrefix(Collection), prefixCollectionsBleveIndex>> \o indexedValue

\* newIDs(ctx, selectorHash, indexedValue, asBytes): the ids read from the
\* bytes stored under an indexed value
newIDs(asBytes) == asBytes

\* idsType.AddIDs: the ids that are not in the list yet go behind it
AddIDs(allIDs, ids) ==
    allIDs \o SelectSeq(ids, LAMBDA x : x \notin {allIDs[j] : j \in DOMAIN allIDs})

\* the index write of one document: its id is stored under the indexed value
indexPut(db, indexedValue, id) ==
    LET key == getIDBuilder(indexedValue)
        ids == IF key \in DOMAIN db THEN db[key] ELSE << >>
    IN  Set(db, key, AddIDs(ids, <<id>>))

bytesContains(b, subslice) ==
    \E i \in 0..(Len(b) - Len(subslice)) : SubSeq(b, i + 1, i + Len(subslice)) = subslice

ReverseKeys(s) == [i \in 1..Len(s) |-> s[Len(s) + 1 - i]]

\* tx.NewIterator and iter.Seek(key): the keys from the one the iterator
\* stands on, in the direction it runs
iterSeek(db, key, increasing) ==
    IF increasing
    THEN SortKeys({k \in DOMAIN db : ~LexLess(k, key)})
    ELSE ReverseKeys(SortKeys({k \in DOMAIN db : ~LexLess(key, k)}))

\* the loop of getIDsForRangeOfValuesLoop; iter holds the key the iterator
\* stands on and the ones behind it, a limit of nil is the empty byte string
RECURSIVE getIDsForRangeOfValuesLoop(_, _, _, _, _)
getIDsForRangeOfValuesLoop(idx, allIDs, iter, filterValue, limit) ==
    LET prefix == getIDBuilder(<< >>)
        next == Tail(iter)
    IN  IF next = << >> \/ ~ValidForPrefix(Head(next), prefix) THEN allIDs
        ELSE LET indexedValuePlusPrefixes == Head(next)
                 idsAsByte == idx.db[indexedValuePlusPrefixes]
                 ids == newIDs(idsAsByte)
                 added == AddIDs(allIDs, ids)
             IN  IF Len(indexedValuePlusPrefixes) <= 0 /\ Len(idsAsByte) <= 0
                 THEN allIDs
                 ELSE IF idx.Type = "StringIndex"
                         /\ ~bytesContains(indexedValuePlusPrefixes, filterValue)
                 THEN getIDsForRangeOfValuesLoop(idx, allIDs, next, filterValue, limit)
                 ELSE IF limit # << >> /\ LexLess(prefix \o limit, indexedValuePlusPrefixes)
                 THEN allIDs
                 ELSE IF Len(added) > idx.InternalQueryLimit
                 THEN Take(added, idx.InternalQueryLimit)
                 ELSE getIDsForRangeOfValuesLoop(idx, added, next, filterValue, limit)

getIDsForRangeOfValues(idx, filterValue, limit, increasing) ==
    LET iter == iterSeek(idx.db, getIDBuilder(filterValue), increasing)
    IN  IF iter = << >> \/ ~ValidForPrefix(Head(iter), getIDBuilder(<< >>))
        THEN [ids |-> << >>, err |-> "ErrNotFound"]
        ELSE LET firstIndexedValueAsByte == Head(iter)
                 firstIDsValue == newIDs(idx.db[firstIndexedValueAsByte])
                 take == /\ \/ idx.Type # "StringIndex"
                            \/ /\ bytesContains(firstIndexedValueAsByte, filterValue)
                               /\ idx.Type = "StringIndex"
                         /\ firstIndexedValueAsByte # filterValue
                 allIDs == IF take THEN AddIDs(<< >>, firstIDsValue) ELSE << >>
             IN  [ids |-> getIDsForRangeOfValuesLoop(idx, allIDs, iter, filterValue, limit),
                  err |-> "nil"]

\* the index as the scan sees it
ThisIndex == [db |-> store, Type |-> probe.Type, InternalQueryLimit |-> probe.InternalQueryLimit]

\* the ids stored under the key the scan starts on
FirstIDs(filterValue, increasing) ==
    LET iter == iterSeek(store, getIDBuilder(filterValue), increasing)
    IN  IF iter = << >> \/ ~ValidForPrefix(Head(iter), getIDBuilder(<< >>))
        THEN << >> ELSE store[Head(iter)]

\* the database holds a document of the collection and a file, so that keys
\* lie before and behind the keys of the index
InitIndex ==
    /\ FileChuckSize = ChunkBound
    /\ store = PutFileDB(PutDocumentDB(EmptyDB, Collection, "d1", RawBody(<<1>>)),
                         OtherFile, << >>, << >>)
    /\ handles = IdleHandles
    /\ last = [op |-> "Open", err |-> "nil"]
    /\ probe \in [Type : {"IntIndex", "StringIndex"}, InternalQueryLimit : 1..MaxLimit]

\* the ids the index holds
Indexed(db) ==
    UNION {Range(db[k]) : k \in {x \in DOMAIN db : ValidForPrefix(x, getIDBuilder(<< >>))}}

\* a new document with the indexed value is put: the index gets its id
IndexDocument(indexedValue, id) ==
    /\ id \notin Indexed(store)
    /\ store' = indexPut(store, indexedValue, id)
    /\ last' = [op |-> "Put", err |-> "nil"]
    /\ UNCHANGED <<FileChuckSize, handles, probe>>

\* queryGreaterLess: what the scan hands to ids.AddIDs
queryGreaterLess(filterValue, greater) ==
    /\ LET r == getIDsForRangeOfValues(ThisIndex, filterValue, << >>, greater)
       IN  last' = [op |-> IF greater THEN "Greater" ELSE "Less", err |-> r.err,
                    ids |-> r.ids, first |-> FirstIDs(filterValue, greater)]
    /\ UNCHANGED <<store, FileChuckSize, handles, probe>>

\* queryBetween
queryBetween(from, to) ==
    /\ LET r == getIDsForRangeOfValues(ThisIndex, from, to, TRUE)
       IN  last' = [op |-> "Between", err |-> r.err, ids |-> r.ids,
                    first |-> FirstIDs(from, TRUE)]
    /\ UNCHANGED <<store, FileChuckSize, handles, probe>>

IndexedIDs == {"d1", "d2", "d3"}

NextIndex ==
    \/ \E v \in IndexValues : \E id \in IndexedIDs : IndexDocument(v, id)
    \/ \E v \in IndexValues : \E greater \in BOOLEAN : queryGreaterLess(v, greater)
    \/ \E from \in IndexValues : \E to \in IndexValues : queryBetween(from, to)

SpecIndex == InitIndex /\ [][NextIndex]_vars

\* --------------------------------------------------------- SpecReadBack
\* one writer handle over MainFile that writes and reads back.  probe keeps
\* the last successful write of the handle (its bytes p and its offset off),
\* whether the handle held a cached chunk when it was made, and how many reads
\* came after it
NoWrite ==
    [valid |-> FALSE, p |-> << >>, off |-> 0, cached |-> FALSE, reads |-> 0,
     within |-> FALSE]

InitReadBack ==
    /\ store = EmptyDB
    /\ FileChuckSize = ChunkBound
    /\ handles = IdleHandles
    /\ last = [op |-> "open", err |-> "nil"]
    /\ probe = NoWrite

Written(p, off, err) ==
    IF err = "nil"
    THEN [valid |-> TRUE, p |-> p, off |-> off,
          cached |-> handles[1].hasCache /\ handles[1].cachedChunk > 0, reads |-> 0,
          within |-> off <= Len(ReadFileOut(store, MainFile))]
    ELSE NoWrite

OpenWriterBack ==
    /\ GetFileWriterOp(1, MainFile)
    /\ probe' = NoWrite

WriteBack(p) ==
    /\ WriteOp(1, p)
    /\ probe' = Written(p, handles[1].currentPosition, last'.err)

WriteAtBack(p, off) ==
    /\ WriteAtOp(1, p, off)
    /\ probe' = Written(p, off, last'.err)

ReadBack(L) ==
    /\ ReadOp(1, L)
    /\ probe' = [probe EXCEPT !.reads = IF @ < 2 THEN @ + 1 ELSE @]

ReadAtBack(L, off) ==
    /\ ReadAtOp(1, L, off)
    /\ probe' = [probe EXCEPT !.reads = IF @ < 2 THEN @ + 1 ELSE @]

CloseBack ==
    /\ CloseOp(1, "Close")
    /\ probe' = NoWrite

\* the size recorded in the handle is kept within MaxShared
NextReadBack ==
    \/ NoneUsed /\ PutFile(MainFile, FilePayload(MaxFile), FullReads(MaxFile))
    \/ handles[1].state = "none" /\ OpenWriterBack
    \/ \E k \in 1..MaxFile :
          handles[1].meta.Size + k <= MaxShared /\ WriteBack(WritePayload(k))
    \/ \E off \in 0..MaxPiece :
          handles[1].meta.Size < MaxShared /\ WriteAtBack(WritePayload(1), off)
    \/ \E L \in {1, MaxBuf} : ReadBack(L)
    \/ \E off \in 0..MaxPiece : ReadAtBack(MaxBuf, off)
    \/ \E offset \in {0, MaxPiece} : Seek(1, offset, "SeekStart")
    \/ CloseBack

SpecReadBack == InitReadBack /\ [][NextReadBack]_vars

\* ------------------------------------------------------- SpecListDelete
\* files related to the documents of the collection are stored and deleted.
\* probe keeps, for the last DeleteFile, the document the metadata of the
\* file named and the related list of that document before the call
NoDelete == [colName |-> "", documentID |-> "", before |-> << >>]

InitListDelete ==
    /\ store = EmptyDB
    /\ FileChuckSize = ChunkBound
    /\ handles = IdleHandles
    /\ last = [op |-> "open", err |-> "nil"]
    /\ probe = NoDelete

DeleteFileListed(id) ==
    /\ DeleteFileOp(id)
    /\ LET meta == getFileMetaWithTxn(store, id)
       IN  probe' = [colName |-> meta.RelatedDocumentCollection,
                     documentID |-> meta.RelatedDocumentID,
                     before |-> getRelatedFileIDsInternal(store,
                                    meta.RelatedDocumentCollection,
                                    meta.RelatedDocumentID)]

\* the related lists are kept within MaxShared ids
ListShort(documentID) ==
    Len(getRelatedFileIDsInternal(store, Collection, documentID)) < MaxShared

NextListDelete ==
    \/ \E d \in Docs :
          ListShort(d) /\ PutFileRelated(MainFile, FilePayload(1), FullReads(1), Collection, d)
    \/ ListShort("d1") /\ PutFileRelated(OtherFile, FilePayload(1), FullReads(1), Collection, "d1")
    \/ /\ ListShort("d1") /\ handles[1].state = "none"
       /\ GetFileWriterRelated(1, MainFile, Collection, "d1")
    \/ handles[1].state = "open" /\ Close(1)
    \/ PutFile(OtherFile, FilePayload(1), FullReads(1))
    \/ \E id \in FileIDs : DeleteFileListed(id)

SpecListDelete == InitListDelete /\ [][NextListDelete]_vars

\* -------------------------------------------------------- SpecChunkSize
\* the package variable FileChuckSize is assigned while files exist: a
\* file is written through one writer handle, by Write calls only, from its
\* creation on
SetFileChuckSize(c) ==
    /\ Alive
    /\ FileChuckSize' = c
    /\ last' = [op |-> "SetFileChuckSize", c |-> c, err |-> "nil"]
    /\ UNCHANGED <<store, handles, probe>>

NextChunkSize ==
    \/ \E c \in {ChunkBound, ChunkBound + 1} : SetFileChuckSize(c)
    \/ handles[1].state = "none" /\ GetFileWriter(1, MainFile)
    \/ \E k \in 1..MaxWrite : Room(1, k) /\ Write(1, WritePayload(k))
    \/ Close(1)

SpecChunkSize == InitHandles /\ [][NextChunkSize]_vars

\* ------------------------------------------------------- SpecWriteError
\* A writer whose chunks were stored under one chunk size and are written
\* again, after a Seek or with WriteAt, under a smaller one: writeFileChunk
\* refuses the chunk that became longer than FileChuckSize.
NextWriteError ==
    \/ \E c \in {ChunkBound, ChunkBound + 1} : SetFileChuckSize(c)
    \/ handles[1].state = "none" /\ GetFileWriter(1, MainFile)
    \/ \E k \in 1..MaxPiece + 1 : Room(1, k) /\ Write(1, WritePayload(k))
    \/ Room(1, 1) /\ WriteAt(1, WritePayload(1), 0)
    \/ Seek(1, 0, "SeekStart")
    \/ Close(1)

SpecWriteError == InitHandles /\ [][NextWriteError]_vars

\* ----------------------------------------------------------- SpecStream
\* a payload written through a writer handle on a new id by sequential
\* Write calls, the handle closed, the file read back through a reader
\* handle by sequential Read calls.  probe holds what was written and read.
StreamByte(i) == 20 + i

InitStream ==
    /\ store = EmptyDB
    /\ FileChuckSize = ChunkBound
    /\ handles = IdleHandles
    /\ last = [op |-> "open", err |-> "nil"]
    /\ probe = [phase |-> "start", written |-> << >>, readback |-> << >>,
                total |-> 0, writesOK |-> TRUE]

StreamPutOther ==
    /\ probe.phase = "start"
    /\ FileKeys(store, OtherFile) = {}
    /\ PutFile(OtherFile, OtherPayload, FullReads(Len(OtherPayload)))

StreamOpenWriter ==
    /\ probe.phase = "start"
    /\ FileKeys(store, MainFile) = {}
    /\ GetFileWriterOp(1, MainFile)
    /\ probe' = [probe EXCEPT !.phase = "writing"]

StreamWrite(k) ==
    /\ probe.phase = "writing"
    /\ Len(probe.written) + k <= MaxStream
    /\ LET p == [j \in 1..k |-> StreamByte(Len(probe.written) + j)]
       IN  /\ WriteOp(1, p)
           /\ probe' = [probe EXCEPT !.written = @ \o p,
                            !.writesOK = @ /\ last'.err = "nil" /\ last'.n = k]

StreamCloseWriter ==
    /\ probe.phase = "writing"
    /\ CloseOp(1, "Close")
    /\ probe' = [probe EXCEPT !.phase = "closed"]

StreamOpenReader ==
    /\ probe.phase = "closed"
    /\ GetFileReaderOp(2, MainFile)
    /\ probe' = [probe EXCEPT !.phase = "reading"]

StreamRead(L) ==
    /\ probe.phase = "reading"
    /\ ReadOp(2, L)
    /\ probe' = [probe EXCEPT !.readback = @ \o last'.data,
                              !.total = @ + last'.n,
                              !.phase = IF last'.err = "nil" THEN @ ELSE "done"]

NextStream ==
    \/ StreamPutOther
    \/ StreamOpenWriter
    \/ \E k \in 0..MaxWrite : StreamWrite(k)
    \/ StreamCloseWriter
    \/ StreamOpenReader
    \/ \E L \in 1..MaxBuf : StreamRead(L)

SpecStream == InitStream /\ [][NextStream]_vars

\* =============================================================== claims

\* C1: a ReadFile(id) that follows PutFile(id, P) finds that PutFile returned
\* n = len(P) without error, and writes exactly P
C1_FileRoundTrip ==
    (last.op = "ReadFile" /\ last.prev.op = "PutFile" /\ last.prev.id = last.id)
        => /\ last.prev.err = "nil"
           /\ last.prev.n = Len(last.prev.P)
           /\ last.err = "nil"
           /\ last.out = last.prev.P

C1_Witness ==
    /\ last.op = "ReadFile" /\ last.prev.op = "PutFile" /\ last.prev.id = last.id
    /\ Len(last.prev.P) > FileChuckSize
    /\ last.out = last.prev.P

\* C2: a PutFile on an id that held more chunks than the new payload needs
\* leaves under the file prefix the metadata key and the chunks of the new
\* payload only, and ReadFile gives the new payload
C2_Overwrite ==
    (last.op = "PutFile" /\ last.shrunk)
        => /\ FileKeys(store, last.id) =
                  {buildFilePrefix(last.id, i) : i \in 0..Len(last.reads)}
           /\ \A i \in 1..Len(last.reads) :
                  Len(store[buildFilePrefix(last.id, i)]) = last.reads[i]
           /\ ReadFileOut(store, last.id) = last.P

C2_Witness ==
    /\ last.op = "PutFile" /\ last.shrunk /\ Len(last.P) > 0
    /\ ReadFileOut(store, last.id) = last.P

\* C3: when DeleteFile(id) has returned without error no key under the
\* prefix of id is left
C3_DeletionComplete ==
    (last.op = "DeleteFile" /\ last.err = "nil") => FileKeys(store, last.id) = {}

C3_Witness ==
    /\ last.op = "DeleteFile" /\ last.err = "nil" /\ last.existed
    /\ FileKeys(store, last.id) = {}

\* C5: for chunk numbers 0 <= a < b of one file (0 the metadata record) the
\* key of a is strictly below the key of b in byte order
C5_ChunkKeyOrder ==
    probe.done => LexLess(probe.ka, probe.kb)

C5_Witness ==
    probe.done /\ probe.a = 255 /\ probe.b = 256 /\ LexLess(probe.ka, probe.kb)

Max(a, b) == IF a >= b THEN a ELSE b

\* C6 (as claimed): a successful WriteAt(p, off) with off + len(p) within the
\* content old of the file leaves the content old[0..off] || p || old[off+len(p)..]
C6_OverwriteSplice ==
    (last.op = "WriteAt" /\ last.err = "nil" /\ last.off + Len(last.p) <= Len(last.old))
        => ReadFileOut(store, MainFile) =
              Take(last.old, last.off) \o last.p \o Drop(last.old, last.off + Len(last.p))

\* C8 (as claimed): after a successful write of p at offset o the stored
\* size is max(old_size, o + len(p)), and it is the length of the stored
\* chunk payloads
C8_SizeAfterWrite ==
    (last.op \in {"Write", "WriteAt"} /\ last.err = "nil")
        => /\ StoredSize(store, MainFile) = Max(last.oldSize, last.off + Len(last.p))
           /\ StoredSize(store, MainFile) = Len(ReadFileOut(store, MainFile))

Min(a, b) == IF a <= b THEN a ELSE b

\* C4 (as claimed): while a writer handle on a file id is open, another
\* GetFileWriter on that id fails with ErrFileInWrite, and no two open
\* writer handles exist for one file id
C4_SingleWriter ==
    /\ (last.op = "GetFileWriter" /\ last.openWriters # {}) => last.err = "ErrFileInWrite"
    /\ \A h1, h2 \in Handles :
          (/\ h1 # h2
           /\ handles[h1].state = "open" /\ handles[h1].writer
           /\ handles[h2].state = "open" /\ handles[h2].writer)
              => handles[h1].meta.ID # handles[h2].meta.ID

\* C10 (as claimed): on a reader handle over content R of size S, ReadAt of
\* L bytes at 0 <= off < S returns n = min(L, S - off) bytes equal to
\* R[off..off+n], with EndOfFile when fewer than L bytes remain
C10_ReadAt ==
    (last.op = "ReadAt" /\ ~handles[last.h].writer /\ last.off < Len(last.R))
        => /\ last.n = Min(last.L, Len(last.R) - last.off)
           /\ last.data = SubSeq(last.R, last.off + 1, last.off + last.n)
           /\ (last.L > Len(last.R) - last.off => last.err = "EOF")

\* C11 (as claimed): Seek sets the position to offset (SeekStart), to
\* position + offset (SeekCurrent), to size - offset (SeekEnd); a Read that
\* returns n bytes without EndOfFile advances the position by n; and the Read
\* that follows a successful Seek returns the bytes of the file from the
\* position the Seek set (after Seek(e, SeekEnd): the last e bytes)
C11_SeekSemantics ==
    /\ last.op = "Seek" =>
          handles[last.h].currentPosition =
             (CASE last.whence = "SeekStart" -> last.offset
                [] last.whence = "SeekCurrent" -> last.oldPos + last.offset
                [] last.whence = "SeekEnd" -> last.size - last.offset)
    /\ (last.op = "Read" /\ last.err = "nil") =>
          /\ last.n = last.L
          /\ handles[last.h].currentPosition = last.off + last.n
    /\ (last.op = "Read" /\ last.afterSeek = "nil" /\ ~handles[last.h].writer) =>
          /\ last.n = Min(last.L, last.size - last.off)
          /\ last.data = SubSeq(last.R, last.off + 1, last.off + last.n)

\* C12 (as claimed): a Read with the position at or beyond the size, and a
\* ReadAt with off at or beyond the size, return zero bytes with EndOfFile:
\* no other error, no crash
C12_ReadAtEnd ==
    (/\ last.op \in {"Read", "ReadAt"}
     /\ ~handles[last.h].writer
     /\ last.off >= last.size)
        => last.n = 0 /\ last.err = "EOF"

\* C14 (as claimed): the in_write flag of the stored metadata of a file is
\* true exactly while some open writer handle owns the file
C14_InWriteFlag ==
    \A id \in FileIDs :
        getFileMetaWithTxn(store, id).inWrite
            <=> (\E h \in Handles : /\ handles[h].state = "open"
                                     /\ handles[h].writer
                                     /\ handles[h].meta.ID = id)

\* the chunks stored for id, in key order
ChunkValues(db, id) ==
    LET keys == IterFrom(db, buildFilePrefix(id, 1), buildFilePrefix(id, -1))
    IN  [i \in 1..Len(keys) |-> db[keys[i]]]

\* C16 (as claimed): after a successful PutFile from any reader, every stored
\* chunk but the last holds exactly chunk_size bytes and the last at most
\* chunk_size, so the byte at offset o is in chunk o / chunk_size + 1 at
\* index o mod chunk_size
C16_ChunkLengths ==
    (last.op = "PutFile" /\ last.err = "nil") =>
        LET chunks == ChunkValues(store, last.id)
            c == getFileMetaWithTxn(store, last.id).ChuckSize
        IN  /\ \A i \in 1..Len(chunks) :
                  IF i < Len(chunks) THEN Len(chunks[i]) = c ELSE Len(chunks[i]) <= c
            /\ \A o \in 0..(Len(last.P) - 1) :
                  LET key == buildFilePrefix(last.id, (o \div c) + 1)
                  IN  /\ key \in DOMAIN store
                      /\ (o % c) + 1 <= Len(store[key])
                      /\ store[key][(o % c) + 1] = last.P[o + 1]

\* C13 (as claimed): after a document is deleted, every file stored as
\* related to it, through PutFileRelated or through GetFileWriterRelated, is
\* gone: ReadFile on it yields zero bytes
C13_Cascade ==
    last.op = "DeleteDocument" =>
        \A id \in last.related \cup last.listed : ReadFileOut(store, id) = << >>

\* C17 (as claimed): for every document the stored related list holds
\* exactly the ids of the files whose metadata names that document
C17_RelatedList ==
    \A d \in Docs :
        Range(getRelatedFileIDsInternal(store, Collection, d))
            = RelatedByMeta(store, Collection, d)

\* C15 (as claimed): a PutFile / PutFileRelated on an id that an open writer
\* handle owns fails and leaves the content of the file as it was; and two
\* concurrent calls on one id never leave a mix of the two payloads
C15_PutFileInWrite ==
    /\ \A c \in Callers :
          (probe[c].pc = "done" /\ probe[c].openAtStart) =>
              /\ probe[c].err # "nil"
              /\ (\A o \in Callers \ {c} : probe[o].pc = "start")
                     => ReadFileOut(store, probe[c].id) = probe[c].before
    /\ (/\ \A c \in Callers : probe[c].pc = "done"
        /\ probe[1].id = probe[2].id)
          => ReadFileOut(store, probe[1].id) \in {CallerPayload(c) : c \in Callers}

\* C18 (as claimed): when two callers have stored two different files
\* related to one document and both calls have returned, both file ids are
\* in the stored related list
C18_AtomicAppend ==
    (/\ \A c \in Callers : probe[c].pc = "done"
     /\ probe[1].id # probe[2].id)
        => {probe[1].id, probe[2].id}
              \subseteq Range(getRelatedFileIDsInternal(store, Collection, "d1"))

\* the store after the first k committed requests, each applied whole
RECURSIVE Replay(_, _)
Replay(log, k) ==
    IF k = 0 THEN EmptyDB ELSE ApplyOperations(Replay(log, k - 1), log[k])

C20_ClosedHandle ==
    (/\ last.op \in {"Read", "ReadAt", "Write", "WriteAt", "Seek"}
     /\ "closed" \in DOMAIN last)
        => /\ last.err = "Closed"
           /\ ReadFileOut(store, handles[last.h].meta.ID) = last.old
           /\ getFileMetaWithTxn(store, handles[last.h].meta.ID) = last.oldMeta

\* C21 (as claimed): a Close on a handle that is closed already, by an
\* earlier Close or by its timer, returns no error and leaves every stored
\* key and value as it was before that Close
C21_CloseIdempotent ==
    (/\ last.op \in {"Close", "mustClose"}
     /\ "again" \in DOMAIN last)
        => /\ last.err = "nil"
           /\ store = last.before

\* C22 (as claimed): when the timer closes a handle, a full timeout has
\* passed since the last Read, Write, Seek, ReadAt or WriteAt on it
C22_DeadManTimer ==
    last.op = "mustClose" => probe.now - probe.lastUse >= ReaderWriterTimeout

ChunkSuffix(key) == SubSeq(key, Len(buildFilePrefix(MainFile, -1)) + 1, Len(key))
ClaimedSuffix(n) == Repeat255((n - 1) \div 256) \o <<((n - 1) % 256) + 1>>

\* C24 (as claimed): the suffix of chunk n >= 1 is (n-1)/256 bytes of 0xFF
\* followed by the byte ((n-1) mod 256) + 1
C24_ChunkSuffixClaimed ==
    probe.done => ChunkSuffix(probe.kb) = ClaimedSuffix(probe.b)

\* C24 (amended): the suffix of chunk n >= 1 is the claimed one when n is not
\* a multiple of 256; for n = 256 k it is k bytes of 0xFF followed by the
\* byte 0x00, and every byte of a suffix is a byte
C24_ChunkSuffix ==
    probe.done =>
        /\ \A i \in 1..Len(probe.kb) : probe.kb[i] \in 0..255
        /\ IF probe.b % 256 # 0
           THEN ChunkSuffix(probe.kb) = ClaimedSuffix(probe.b)
           ELSE ChunkSuffix(probe.kb) = Repeat255(probe.b \div 256) \o <<0>>

\* the key of chunk 512 has been built: two bytes of 0xFF and 0x00
C24_Witness ==
    probe.done /\ probe.b = 512 /\ ChunkSuffix(probe.kb) = <<255, 255, 0>>

\* C25 (as claimed): the first Write(p) through a newly opened writer
\* handle, with no seek before it, returns no error and makes the content of
\* the file the content of before followed by p, whatever was written to
\* the file through earlier handles; a newly opened reader handle is at
\* position 0
C25_WriterStartsAtEnd ==
    /\ (last.op = "Write" /\ last.afterOpen)
          => /\ last.err = "nil"
             /\ ReadFileOut(store, handles[last.h].meta.ID) = last.old \o last.p
    /\ (last.op = "GetFileReader" /\ last.err = "nil")
          => handles[last.h].currentPosition = 0

\* C26 (as claimed): every caller that has a write request to send returns
\* in the end, with the result of the commit or with Cancelled, also when
\* the queue is full and when the context of the database is cancelled and
\* the coordinator has stopped
C26_NoCallerBlocks ==
    \A p \in Producers : (probe.pc[p] = "sending") ~> (probe.pc[p] = "returned")

\* C27 (as claimed): when PutFileWithTTL or GetFileWriterWithTTL has
\* returned without error, a TTL record for the file id, with the file flag
\* set, is committed; when it has returned an error, no TTL record for the
\* id is on its way
C27_TTLScheduling ==
    /\ (last.op \in {"PutFileWithTTL", "GetFileWriter"} /\ last.err = "nil")
          => TTLRecorded(store, last.id)
    /\ (last.op \in {"PutFileWithTTL", "GetFileWriter"} /\ last.err # "nil")
          => last.id \notin probe.started

\* C28: every byte returned through a reader handle is a byte of the file
\* as it was committed when the handle was opened, so that no chunk write
\* committed later shows through it; and the first Read of a handle returns
\* the beginning of the file as committed when it was opened, with the
\* writes committed before
C28_SnapshotReads ==
    (/\ last.op \in {"Read", "ReadAt"}
     /\ last.h = 1
     /\ last.err \in {"nil", "EOF"})
        => /\ \A i \in 1..Len(last.data) : last.data[i] \in Range(probe.snap)
           /\ probe.wasFresh
                 => last.data = Take(probe.snap, Min(last.L, Len(probe.snap)))

\* a first Read through a reader opened after one write of the writer was
\* committed and before another one was
C28_Witness ==
    /\ last.op = "Read" /\ last.h = 1 /\ last.err = "nil"
    /\ probe.wasFresh
    /\ WriteByte(1) \in Range(last.data)
    /\ ReadFileOut(store, MainFile) # probe.snap

\* the metadata keys of the files stored in db, in the order of the engine
MetaKeysOf(db) ==
    SortKeys({buildFilePrefix(id, 0) : id \in {f \in FileIDs : buildFilePrefix(f, 0) \in DOMAIN db}})

\* the chunk keys of db: every key of a file but its metadata key
ChunkKeysOf(db) ==
    {k \in DOMAIN db : ValidForPrefix(k, <<prefixFiles>>)} \ {buildFilePrefix(id, 0) : id \in FileIDs}

\* C29: the file iterator yields metadata records only. Next returns nil or
\* ErrFileItemIteratorNotValid and never a decoding error; when it returns nil
\* the cursor is on the metadata key of a stored file and the iterator's
\* metadata is that file's; no key the cursor rested on under the files prefix
\* is a chunk key, whatever the chunk number (256 and 512 included); and when
\* Next reports ErrFileItemIteratorNotValid the keys the cursor rested on,
\* from the position GetFileIterator gave it on, are the metadata keys of
\* every file of the iterator's snapshot, each exactly once.
C29_IteratorYieldsMetadataOnly ==
    probe.open =>
        /\ \A i \in 1..Len(probe.rest) :
               ValidForPrefix(probe.rest[i], <<prefixFiles>>) =>
                   probe.rest[i] \notin ChunkKeysOf(probe.txn)
        /\ last.op = "Next" =>
               /\ last.err \in {"nil", "ErrFileItemIteratorNotValid"}
               /\ last.err = "nil" =>
                      /\ probe.item = probe.rest[Len(probe.rest)]
                      /\ \E id \in FileIDs :
                             /\ probe.item = buildFilePrefix(id, 0)
                             /\ probe.item \in DOMAIN probe.txn
                             /\ probe.meta.ID = id
               /\ last.err = "ErrFileItemIteratorNotValid" =>
                      SelectSeq(probe.rest, LAMBDA k : ValidForPrefix(k, <<prefixFiles>>))
                          = MetaKeysOf(probe.txn)

\* Next has gone from the metadata of MainFile over its chunks, the chunks
\* 256 and 512 among them, to the metadata of the other file
C29_Witness ==
    /\ probe.open
    /\ last.op = "Next"
    /\ last.err = "nil"
    /\ buildFilePrefix(MainFile, 256) \in DOMAIN probe.txn
    /\ buildFilePrefix(MainFile, 512) \in DOMAIN probe.txn
    /\ probe.rest = <<buildFilePrefix(MainFile, 0), buildFilePrefix(OtherFile, 0)>>
    /\ last.to - last.from > 2

\* C30 (as claimed): the candidate ids one index range scan (Greater, Less or
\* Between) returns are never more than InternalQueryLimit, however many ids
\* are stored under the first matching indexed value and the following ones
C30_IndexScanCap ==
    last.op \in {"Greater", "Less", "Between"} =>
        Len(last.ids) <= probe.InternalQueryLimit

\* C31 (as claimed): on a reader handle over an unchanged file with content
\* R, every Read and ReadAt that starts at a position below the size returns
\* bytes equal to R[pos..pos+n], whatever Read, ReadAt and Seek calls came
\* before; and the chunk a handle has cached is the one its recorded chunk
\* number names
C31_CachedReads ==
    /\ (/\ last.op \in {"Read", "ReadAt"}
        /\ ~handles[last.h].writer
        /\ last.off >= 0 /\ last.off < last.size
        /\ last.err \in {"nil", "EOF"})
          => last.data = SubSeq(last.R, last.off + 1, last.off + last.n)
    /\ \A h \in Handles :
          (/\ handles[h].state = "open" /\ ~handles[h].writer
           /\ handles[h].hasCache /\ handles[h].cachedChunk > 0)
             => /\ buildFilePrefix(handles[h].meta.ID, handles[h].cachedChunk)
                       \in DOMAIN handles[h].txn
                /\ handles[h].cache =
                       handles[h].txn[buildFilePrefix(handles[h].meta.ID,
                                                      handles[h].cachedChunk)]

\* the positions a read of n bytes at off shares with the bytes p written at
\* woff
SharedRange(off, n, woff, p) ==
    {i \in off..(off + n - 1) : i >= woff /\ i < woff + Len(p)}

\* C32 (as claimed): after a Write or WriteAt has returned without error on
\* a handle, a read on that handle over the written range does not fail and
\* returns the written bytes (until the handle writes again), also when the
\* handle held a cached chunk before the write: a read that starts at the
\* offset of the write returns its first min(L, len(p)) bytes
C32_ReadYourWrites ==
    (/\ last.op \in {"Read", "ReadAt"}
     /\ probe.valid
     /\ last.off >= probe.off /\ last.off < probe.off + Len(probe.p))
        => /\ last.err \in {"nil", "EOF"}
           /\ last.n >= Min(last.L, probe.off + Len(probe.p) - last.off)
           /\ \A i \in SharedRange(last.off, last.n, probe.off, probe.p) :
                  last.data[i - last.off + 1] = probe.p[i - probe.off + 1]

\* the same for the first read after the write only
C32_FirstReadAfterWrite ==
    (probe.reads = 1 /\ probe.within) => C32_ReadYourWrites

\* the positions of s that do not hold x
OtherPositions(s, x) == {i \in 1..Len(s) : s[i] # x}

\* C33: after DeleteFile(id) of a file related to a document, id is no longer
\* in the related list of that document, every other id of the list is still
\* there, as often as before and in the same order, and a list that has
\* become empty is not stored: its key is deleted
C33_DeleteKeepsList ==
    (last.op = "DeleteFile" /\ probe.colName # "") =>
        LET key == buildRelatedID(probe.colName, probe.documentID)
            after == IF key \in DOMAIN store THEN store[key] ELSE << >>
        IN  /\ last.id \notin Range(after)
            /\ Len(after) = Cardinality(OtherPositions(probe.before, last.id))
            /\ \A j \in 1..Len(after) :
                   \E i \in OtherPositions(probe.before, last.id) :
                       /\ probe.before[i] = after[j]
                       /\ Cardinality({k \in OtherPositions(probe.before, last.id) : k < i}) = j - 1
            /\ key \in DOMAIN store => store[key] # << >>
            /\ OtherPositions(probe.before, last.id) = {} => key \notin DOMAIN store

\* DeleteFile has taken the id out of a list that holds it twice around
\* another id
C33_Witness ==
    /\ last.op = "DeleteFile"
    /\ last.id = MainFile
    /\ probe.before = <<MainFile, OtherFile, MainFile>>
    /\ probe.documentID = "d1"
    /\ getRelatedFileIDsInternal(store, probe.colName, probe.documentID) = <<OtherFile>>

\* C34 (as claimed): a write through a writer handle splits the data at the
\* chunk size recorded in the metadata of the file, the one that maps an
\* offset to its chunk and to the index inside it, whatever FileChuckSize is
\* by now: after a successful Write of p at position off no chunk of the file
\* is longer than that chunk size, and byte j of p is stored in chunk
\* (off + j) / chunk size + 1 at index (off + j) % chunk size
C34_ChunkSizeFixed ==
    (last.op = "Write" /\ last.err = "nil") =>
        LET r == handles[last.h]
            c == r.meta.ChuckSize
        IN  /\ \A k \in FileKeys(store, r.meta.ID) \ {buildFilePrefix(r.meta.ID, 0)} :
                   Len(store[k]) <= c
            /\ \A j \in 0..(Len(last.p) - 1) :
                   LET key == buildFilePrefix(r.meta.ID, ((last.off + j) \div c) + 1)
                   IN  /\ key \in DOMAIN store
                       /\ Len(store[key]) > (last.off + j) % c
                       /\ store[key][((last.off + j) % c) + 1] = last.p[j + 1]

C36_EndOfFileIsSticky ==
    [][(/\ last.op = "Read" /\ last.err = "EOF"
        /\ last'.op = "Read" /\ last'.h = last.h)
       => (last'.n = 0 /\ last'.err = "EOF")]_vars

\* C37 (as claimed): a Write or WriteAt that returns the error of a chunk
\* that could not be committed leaves the position of the handle and the
\* size in the handle's metadata and in the stored metadata as they were
C37_FailedWriteKeepsState ==
    (last.op \in {"Write", "WriteAt"} /\ last.err = "tooLong") =>
        /\ handles[last.h].currentPosition = last.oldPos
        /\ handles[last.h].meta.Size = last.hSize
        /\ StoredSize(store, handles[last.h].meta.ID) = last.oldSize

\* C38 (as claimed): a deleted file stays deleted; the Close, explicit or
\* fired by the timer, of a handle that is still open when no key of the
\* file is stored (a writer has stored the metadata record when it was
\* opened, so the file has been deleted since) writes no key of the file
C38_DeletedStaysDeleted ==
    [][(/\ FileKeys(store, MainFile) = {}
        /\ last'.op \in {"Close", "mustClose"}
        /\ "again" \notin DOMAIN last')
       => FileKeys(store', MainFile) = {}]_vars

\* the file id has no stored chunk: at most its metadata record is stored
NoChunk(db, id) == FileKeys(db, id) \subseteq {buildFilePrefix(id, 0)}

\* C39: ReadFile on an id that has no stored chunk (never written, deleted,
\* or stored from an empty input) writes zero bytes, the bytes of the
\* metadata record neither, and returns no error; DeleteFile on an id of
\* which nothing was stored returns no error and stores nothing
C39_AbsentReadsEmpty ==
    /\ (last.op = "ReadFile" /\ NoChunk(store, last.id)) =>
            (last.out = << >> /\ last.err = "nil")
    /\ (last.op = "DeleteFile" /\ ~last.existed) =>
            (last.err = "nil" /\ FileKeys(store, last.id) = {})

\* ReadFile of the file stored from an empty input, whose metadata record is
\* stored, while the other file has chunks
C39_Witness ==
    /\ last.op = "ReadFile" /\ last.id = MainFile
    /\ buildFilePrefix(MainFile, 0) \in DOMAIN store
    /\ NoChunk(store, MainFile)
    /\ ~NoChunk(store, OtherFile)
    /\ last.out = << >> /\ last.err = "nil"

====
